---- MODULE Spec2Model ----
(***************************************************************************)
(* EventStream: the stream-group consumer protocol and the two listener    *)
(* kinds (Handler Group, Bus Listener) on one stream and one consumer      *)
(* group of a Redis-Streams store.                                         *)
(*                                                                         *)
(* Time is counted in milliseconds and advances in steps of TickMs.        *)
(* Message ids are the positions 1..Len(stream) of the entries in the      *)
(* stream; the value stored at a position is the entry's event name.       *)
(***************************************************************************)
EXTENDS Integers, Sequences, FiniteSets, TLC

\* ------------------------------------------------------------------ bounds
MaxVariants == 3
MaxFields == 2
MaxItems == 1
MaxMsgs == 2
MaxRetryMsgs == 1
NumConsumers == 2
TickMs == 300000
NumInstances == 2
MaxPublished == 2
NumLocks == 2
MaxDepth == 2
MaxMs == 1
MaxSeq == 10
MaxBatch == 2
MaxLength == 2
MaxAppended == 4

\* ------------------------------------------------------- program constants
MAX_IDLE_TIME_MS == 1000 * 60 * 10
MAX_HANDLER_ATTEMPTS == 5
Inbox == 0

Consumers == 1..NumConsumers
Instances == 1..NumInstances
LockObjects == 1..NumLocks
Names == {Inbox} \cup Consumers
Msgs == 1..MaxMsgs

\* Event names producers put on the stream; ConfiguredEvent is the one the
\* listener is configured for (HandlerGroup.event / a key of handlers).
ConfiguredEvent == "generic"
Events == {"generic", "other"}
Handlers == {"h1", "h2"}

\* HandlerGroup.handler: the single code designation of a Handler Group.
GroupHandler == "h1"

\* A faulty get_handlers that falls back to the handlers of the configured
\* event.
get_handlers_fallback(event_name) == <<"h1", "h2">>

\* EventBusConfiguration.get_handlers: the list configured for the event, or
\* the empty list when the event has no entry in the handlers map.
get_handlers(event_name) ==
    IF event_name = ConfiguredEvent THEN <<"h1", "h2">> ELSE <<>>

VARIABLES
    stream,           \* the stream's entries: position = id, value = event
    group_exists,     \* whether the consumer group exists on the stream
    last_delivered,   \* the group's last-delivered id
    consumers,        \* the consumers that exist in the group
    pel,              \* pending entries of each consumer name
    idle,             \* idle time (ms) of each pending entry
    delivered,        \* ids the group has delivered (XREADGROUP returned)
    acked,            \* ids whose pending entry was removed by XACK
    lock,             \* holders of the group lock (at most one)
    completion,       \* hash <group>:<id>: consumer name -> "0" | "1"
    progress,         \* hash <id>::<group>::progress: handler -> attempts
    kind,             \* the listener kind of the group: "handler" | "bus"
    failing,          \* the handlers that raise on every invocation
    excluded,         \* the exclude list get_idle_messages is called with
    max_idle_time,    \* settings.max_idle_time (ms)
    pc,               \* each listener's position
    listed,           \* ids a listener's xpending_range returned
    batch,            \* ids of the batch a listener is dispatching
    read_from,        \* which step of read_from_stream returned the batch
    keep_polling,     \* EventStreamReader.__keep_polling
    active,           \* GroupConsumer.__active
    invocations       \* how often each handler was invoked for each id

\* The master stream, on which every instance of the application runs unique
\* listeners: each instance reads through a group of its own, in which its
\* consumer is the only one apart from the inbox.
VARIABLES
    master_stream,        \* the entries of the master stream, by position
    master_handler,       \* name of the function the listeners run
    master_executive,     \* the listeners are MasterHandlerReaders
    master_pc,            \* each instance's position in listen
    master_last_delivered, \* last-delivered id of each instance's group
    master_pel,           \* ids pending for each instance's consumer
    master_inbox,         \* ids pending for the inbox of each instance's group
    master_acked,         \* ids acknowledged in each instance's group
    message_processes,    \* ids of the batch an instance still has to process
    response_processes,   \* the responses an instance still has to send
    master_keep_polling,  \* EventStreamReader.__keep_polling
    master_active,        \* GroupConsumer.__active
    cancelling            \* the listener's task has been cancelled

master_vars == <<master_stream, master_handler, master_executive, master_pc,
                 master_last_delivered, master_pel, master_inbox,
                 master_acked, message_processes, response_processes,
                 master_keep_polling, master_active, cancelling>>

\* One LuaSafeLock name in the store and the lock objects made for it.
VARIABLES
    lock_key,         \* the value stored under the lock's name: 0 when absent
    token,            \* whether a lock object holds a token (Lock.local.token)
    lock_stack,       \* LuaSafeLock.__lock_stack: <<>> stands for None
    call_stack,       \* the frames of the code that uses a lock object
    returned          \* what the last call on a lock object did

lock_vars == <<lock_key, token, lock_stack, call_stack, returned>>

\* Calls of the library's functions made outside a listener's loop.
VARIABLES
    call_result,      \* the messages the last give_up_message returned
    marked            \* the answer of the last mark_message_processed, if any

api_vars == <<call_result, marked>>

\* A purge request as the master handler works through it, step by step.
VARIABLES
    purge_message,    \* the PurgeMessage being handled: consumer and force
    purge_pc,         \* the position of purge_consumers in its code
    purge_listed      \* the ids transfer_messages_to_inbox listed for it

operations_vars == <<purge_message, purge_pc, purge_listed>>

\* One answer of the store with entry ids as the store writes them.
VARIABLES
    raw_messages,     \* the entries of the answer, in the order of the answer
    organized,        \* what organize_messages made of it, once it has
    dispatched        \* the ids listen has awaited the process of, in order

order_vars == <<raw_messages, organized, dispatched>>

\* A stream that is trimmed, the group that reads it and the trim handler.
VARIABLES
    stream_last,      \* the number of entries appended so far: ids 1, 2, ...
    stream_trimmed,   \* the number of entries removed from the front
    reader_delivered, \* the group's last-delivered id
    reader_pending,   \* the ids pending in the group
    archive,          \* the ids that trim_streams wrote to its output file
    trim_message,     \* the TrimMessage being handled: count and save_output
    trim_pc,          \* the position of trim_streams in its code
    amount_to_write   \* trim_streams: current_length - count

trim_vars == <<stream_last, stream_trimmed, reader_delivered, reader_pending,
               archive, trim_message, trim_pc, amount_to_write>>

\* The message classes of the application and the messages made of them.
VARIABLES
    variants,         \* the subclasses of Message: parent class and own required fields
    cached_weight,    \* WeightedModel._weight as set on each class: None when not set
    ranker,           \* the ranker of the last get_message_body_data_types
    parsed,           \* the payload and the class of the last messages.parse, if any
    response,         \* the message the last create_response or respond_to_message built
    published,        \* the message the last process_response sent to the stream
    mapping,          \* a Message made from keyword arguments, read as a Mapping
    answer,           \* what keys, values, items and integer indexing answer for it
    entry,            \* what Message.send of it put on the stream, or the error raised
    reparsed,         \* the message parsed from that entry
    coercion          \* a value of a payload and what decoding and encoding made of it

message_vars == <<variants, cached_weight, ranker, parsed, response, published,
                  mapping, answer, entry, reparsed, coercion>>

\* What the listeners of the event stream's group leave alone.
other_vars == <<master_vars, lock_vars, api_vars, operations_vars,
                order_vars, trim_vars, message_vars>>

vars == <<stream, group_exists, last_delivered, consumers, pel, idle,
          delivered, acked,
          lock, completion, progress, kind, failing, excluded, max_idle_time,
          pc, listed, batch, read_from, keep_polling, active, invocations,
          other_vars>>

\* What is fixed when the listeners are configured.
settings == <<kind, failing, excluded, max_idle_time>>

store_vars == <<stream, group_exists, last_delivered, consumers, pel, idle,
                delivered, acked, completion, progress>>

\* ----------------------------------------------------------------- helpers
Min(a, b) == IF a < b THEN a ELSE b

RECURSIVE SortedSeq(_)
SortedSeq(S) ==
    IF S = {} THEN <<>>
    ELSE LET least == CHOOSE x \in S : \A y \in S : x <= y
         IN <<least>> \o SortedSeq(S \ {least})

\* organize_messages: the claimed or read entries keyed by id, sorted by id.
\* Ids are the positions of the entries in the stream here; the ids as the
\* store writes them are followed in "the order of a batch".
organize_messages(ids) == SortedSeq(ids)

Range(s) == {s[i] : i \in 1..Len(s)}

InvocationCap == MAX_HANDLER_ATTEMPTS + 1

\* ------------------------------------------------------- the stream store
PendingAll == UNION {pel[n] : n \in Names}

\* The `count` entries of lowest id: what a range query from "-" returns.
Lowest(ids, count) ==
    IF Cardinality(ids) <= count THEN ids
    ELSE {m \in ids : Cardinality({k \in ids : k < m}) < count}

\* XPENDING_RANGE name group - + count consumername: the consumer's entries.
XPENDING_RANGE(consumername, count) == Lowest(pel[consumername], count)

\* XPENDING_RANGE name group - + count idle: entries of any consumer whose
\* idle time is at least the given one.
XPENDING_IDLE(min_idle, count) ==
    Lowest({m \in PendingAll : idle[m] >= min_idle}, count)

\* A faulty XCLAIM that, as with FORCE, also claims ids that are not pending.
ClaimableForced(ids, min_idle_time) ==
    {m \in ids : idle[m] >= min_idle_time}

\* XCLAIM skips ids that are not pending in the group and entries whose idle
\* time is below min_idle_time.
Claimable(ids, min_idle_time) ==
    {m \in ids : m \in PendingAll /\ idle[m] >= min_idle_time}

\* A faulty XCLAIM that leaves the claimed entries with their owners too.
XCLAIM_copy(target, ids) ==
    /\ pel' = [n \in Names |-> IF n = target THEN pel[n] \cup ids ELSE pel[n]]
    /\ idle' = [m \in Msgs |-> IF m \in ids THEN 0 ELSE idle[m]]
    /\ consumers' = IF ids = {} THEN consumers ELSE consumers \cup {target}

\* XCLAIM: the claimed entries move to the target and leave their owners;
\* their idle time restarts; the target consumer exists afterwards.
XCLAIM(target, ids) ==
    /\ pel' = [n \in Names |->
                 IF n = target THEN pel[n] \cup ids ELSE pel[n] \ ids]
    /\ idle' = [m \in Msgs |-> IF m \in ids THEN 0 ELSE idle[m]]
    /\ consumers' = IF ids = {} THEN consumers ELSE consumers \cup {target}

\* XACK: removes the entry from the group's pending list, whoever owns it.
XACK(m) ==
    /\ pel' = [n \in Names |-> pel[n] \ {m}]
    /\ idle' = [i \in Msgs |-> IF i = m THEN 0 ELSE idle[i]]
    /\ acked' = IF m \in PendingAll THEN acked \cup {m} ELSE acked

\* --------------------------------------------------------------- initial
Start ==
    /\ stream = <<>>
    /\ group_exists = FALSE
    /\ last_delivered = 0
    /\ consumers = {}
    /\ pel = [n \in Names |-> {}]
    /\ idle = [m \in Msgs |-> 0]
    /\ delivered = {}
    /\ acked = {}
    /\ lock = {}
    /\ completion = [m \in Msgs |-> [n \in Names |-> "absent"]]
    /\ progress = [m \in Msgs |-> [h \in Handlers |-> 0]]
    /\ pc = [c \in Consumers |-> "new"]
    /\ listed = [c \in Consumers |-> {}]
    /\ batch = [c \in Consumers |-> <<>>]
    /\ read_from = [c \in Consumers |-> "none"]
    /\ keep_polling = [c \in Consumers |-> TRUE]
    /\ active = [c \in Consumers |-> FALSE]
    /\ invocations = [m \in Msgs |-> [h \in Handlers |-> 0]]

\* The instances of the application run their listeners on the master stream:
\* the group of each exists, with its consumer and its inbox, and nothing has
\* been appended to the stream.
MasterStart ==
    /\ master_stream = <<>>
    /\ master_pc = [i \in Instances |-> "loop"]
    /\ master_last_delivered = [i \in Instances |-> 0]
    /\ master_pel = [i \in Instances |-> {}]
    /\ master_inbox = [i \in Instances |-> {}]
    /\ master_acked = [i \in Instances |-> {}]
    /\ message_processes = [i \in Instances |-> <<>>]
    /\ response_processes = [i \in Instances |-> <<>>]
    /\ master_keep_polling = [i \in Instances |-> TRUE]
    /\ master_active = [i \in Instances |-> TRUE]
    /\ cancelling = [i \in Instances |-> FALSE]

\* No lock object holds the lock; the code that uses one is in create_consumer.
LockStart ==
    /\ lock_key = 0
    /\ token = [o \in LockObjects |-> FALSE]
    /\ lock_stack = [o \in LockObjects |-> <<>>]
    /\ call_stack = [o \in LockObjects |-> <<"create_consumer">>]
    /\ returned = [o \in LockObjects |-> "nothing"]

\* Nothing has been called outside a listener's loop.
ApiStart ==
    /\ call_result = <<>>
    /\ marked = {}

\* No purge request is being handled.
OperationsStart ==
    /\ purge_message = <<>>
    /\ purge_pc = "idle"
    /\ purge_listed = {}

\* No answer of the store is being organized.
OrderStart ==
    /\ raw_messages = <<>>
    /\ organized = <<>>
    /\ dispatched = <<>>

\* An empty stream whose group has been created; no trim is being handled.
TrimStart ==
    /\ stream_last = 0
    /\ stream_trimmed = 0
    /\ reader_delivered = 0
    /\ reader_pending = {}
    /\ archive = {}
    /\ trim_message = <<>>
    /\ trim_pc = "idle"
    /\ amount_to_write = 0

\* The classes of the module: Message and no subclass of it whose weight was
\* asked for; nothing has been parsed.
MessagesStart ==
    /\ variants = <<>>
    /\ cached_weight = <<>>
    /\ ranker = <<>>
    /\ parsed = <<>>
    /\ response = <<>>
    /\ published = <<>>
    /\ mapping = <<>>
    /\ answer = <<>>
    /\ entry = <<>>
    /\ reparsed = <<>>
    /\ coercion = <<>>

\* The master stream and the lock as the listeners of the event stream's group
\* find and leave them.
OthersAtRest ==
    /\ MasterStart
    /\ master_handler = "get_instance"
    /\ master_executive = TRUE
    /\ LockStart
    /\ ApiStart
    /\ OperationsStart
    /\ OrderStart
    /\ TrimStart
    /\ MessagesStart

\* A group of listeners of either kind; the handler of a Handler Group may be
\* one that raises.
Defaults ==
    /\ excluded = {}
    /\ max_idle_time = MAX_IDLE_TIME_MS

Init ==
    /\ Start
    /\ OthersAtRest
    /\ Defaults
    /\ kind \in {"handler", "bus"}
    /\ failing \in (IF kind = "handler" THEN SUBSET {GroupHandler} ELSE {{}})

\* A group of listeners of either kind, with any set of raising handlers.
InitRetry ==
    /\ Start
    /\ OthersAtRest
    /\ Defaults
    /\ kind \in {"handler", "bus"}
    /\ failing \in SUBSET (IF kind = "handler" THEN {GroupHandler}
                            ELSE Handlers)


\* ---------------------------------------------------------------- producers
\* XADD of one entry by a producer; producers stop at `limit` entries.
xadd(event, limit) ==
    /\ Len(stream) < limit
    /\ stream' = Append(stream, event)
    /\ UNCHANGED <<delivered, group_exists, last_delivered, consumers, pel,
                   idle, acked, lock, completion, progress, settings, pc,
                   listed, batch, read_from, keep_polling, active,
                   invocations, other_vars>>

\* The passing of TickMs milliseconds: every pending entry grows older.  Idle
\* times are kept up to the reclaim threshold, above which they all behave
\* alike.
Tick ==
    /\ \E m \in PendingAll : idle[m] < MAX_IDLE_TIME_MS
    /\ idle' = [m \in Msgs |->
                  IF m \in PendingAll
                  THEN Min(idle[m] + TickMs, MAX_IDLE_TIME_MS)
                  ELSE idle[m]]
    /\ UNCHANGED <<delivered, stream, group_exists, last_delivered,
                   consumers, pel, acked, lock, completion, progress,
                   settings, pc, listed, batch, read_from, keep_polling,
                   active, invocations, other_vars>>

\* ------------------------------------------------- listener start and stop
\* EventStreamReader.listen up to the loop: keep_polling is set, and the
\* consumer is created under the group lock (GroupConsumer.create_consumer):
\* a missing group is created at the end of the stream together with its
\* inbox consumer, then the named consumer is created.
listen(c) ==
    /\ pc[c] = "new"
    /\ lock = {}
    /\ keep_polling' = [keep_polling EXCEPT ![c] = TRUE]
    /\ group_exists' = TRUE
    /\ last_delivered' = IF group_exists THEN last_delivered ELSE Len(stream)
    /\ consumers' = IF group_exists THEN consumers \cup {c}
                    ELSE consumers \cup {Inbox, c}
    /\ active' = [active EXCEPT ![c] = TRUE]
    /\ pc' = [pc EXCEPT ![c] = "loop"]
    /\ UNCHANGED <<delivered, stream, pel, idle, acked, lock, completion,
                   progress, settings, listed, batch, read_from, invocations,
                   other_vars>>

\* EventStreamReader.stop_polling.
stop_polling(c) ==
    /\ pc[c] # "done"
    /\ keep_polling[c]
    /\ keep_polling' = [keep_polling EXCEPT ![c] = FALSE]
    /\ UNCHANGED <<delivered, stream, group_exists, last_delivered,
                   consumers, pel, idle, acked, lock, completion, progress,
                   settings, pc, listed, batch, read_from, active,
                   invocations, other_vars>>

\* The guard of the polling loop: read the next batch, or leave the loop and
\* the consumer's context (remove_consumer).
poll(c) ==
    /\ pc[c] = "loop"
    /\ pc' = [pc EXCEPT ![c] = IF keep_polling[c] THEN "inbox" ELSE "remove"]
    /\ UNCHANGED <<delivered, stream, group_exists, last_delivered,
                   consumers, pel, idle, acked, lock, completion, progress,
                   settings, listed, batch, read_from, keep_polling, active,
                   invocations, other_vars>>

\* -------------------------------------------------------- read_from_stream
\* A faulty get_dead_messages that looks for idle messages in any case.
after_inbox_continue(claimed) == "stale"

\* get_dead_messages: messages claimed from the inbox are returned at once,
\* otherwise idle messages are looked for.
after_inbox(claimed) == IF claimed # {} THEN "dispatch" ELSE "stale"

\* read_from_stream: dead messages are returned at once, otherwise new
\* entries are read from the stream.
after_dead(claimed) == IF claimed # {} THEN "dispatch" ELSE "fresh"

\* A faulty read_from_stream that returns whatever the fresh read answered.
after_fresh_return(read) == "dispatch"

\* read_from_stream: entries read are returned, otherwise the loop sleeps a
\* second and starts over with the dead messages.
after_fresh(read) == IF read # {} THEN "dispatch" ELSE "inbox"

\* get_messages_from_inbox, first half: take the group lock and list the
\* entries pending for the inbox; with none listed the function returns.
inbox_list(c) ==
    /\ pc[c] = "inbox"
    /\ lock = {}
    /\ LET message_ids == XPENDING_RANGE(Inbox, 999)
       IN /\ listed' = [listed EXCEPT ![c] = message_ids]
          /\ lock' = IF message_ids = {} THEN {} ELSE {c}
          /\ pc' = [pc EXCEPT ![c] =
                      IF message_ids = {} THEN after_inbox({})
                      ELSE "inbox_claim"]
    /\ UNCHANGED <<delivered, stream, group_exists, last_delivered,
                   consumers, pel, idle, acked, completion, progress,
                   settings, batch, read_from, keep_polling, active,
                   invocations, other_vars>>

\* get_messages_from_inbox, second half: claim the listed entries for the
\* caller with min_idle_time=0 and release the lock.
inbox_claim(c) ==
    /\ pc[c] = "inbox_claim"
    /\ LET claimed == Claimable(listed[c], 0)
       IN /\ XCLAIM(c, claimed)
          /\ pc' = [pc EXCEPT ![c] = after_inbox(claimed)]
          /\ batch' = [batch EXCEPT ![c] = organize_messages(claimed)]
          /\ read_from' = [read_from EXCEPT ![c] =
                             IF after_inbox(claimed) = "dispatch"
                             THEN "inbox" ELSE "none"]
    /\ lock' = {}
    /\ listed' = [listed EXCEPT ![c] = {}]
    /\ UNCHANGED <<delivered, stream, group_exists, last_delivered, acked,
                   completion, progress, settings, keep_polling, active,
                   invocations, other_vars>>

\* A faulty get_idle_messages that ignores its exclude list.
claim_all_stale(stale, exclude) == stale

\* get_idle_messages: the ids to claim among the entries listed as idle.
message_ids_to_claim(stale, exclude) == stale \ exclude

\* get_idle_messages, first half: take the group lock and list the entries
\* of the whole group that have been idle for idle_time; with none to claim
\* the function returns.
idle_list(c, exclude, idle_time) ==
    /\ pc[c] = "stale"
    /\ lock = {}
    /\ LET stale == XPENDING_IDLE(idle_time, 99)
           message_ids == message_ids_to_claim(stale, exclude)
       IN /\ listed' = [listed EXCEPT ![c] = message_ids]
          /\ lock' = IF message_ids = {} THEN {} ELSE {c}
          /\ pc' = [pc EXCEPT ![c] =
                      IF message_ids = {} THEN after_dead({})
                      ELSE "stale_claim"]
    /\ UNCHANGED <<delivered, stream, group_exists, last_delivered,
                   consumers, pel, idle, acked, completion, progress,
                   settings, batch, read_from, keep_polling, active,
                   invocations, other_vars>>

\* get_idle_messages, second half: claim the listed entries for the caller
\* with min_idle_time=idle_time and release the lock.
idle_claim(c, idle_time) ==
    /\ pc[c] = "stale_claim"
    /\ LET claimed == Claimable(listed[c], idle_time)
       IN /\ XCLAIM(c, claimed)
          /\ pc' = [pc EXCEPT ![c] = after_dead(claimed)]
          /\ batch' = [batch EXCEPT ![c] = organize_messages(claimed)]
          /\ read_from' = [read_from EXCEPT ![c] =
                             IF after_dead(claimed) = "dispatch"
                             THEN "idle" ELSE "none"]
    /\ lock' = {}
    /\ listed' = [listed EXCEPT ![c] = {}]
    /\ UNCHANGED <<delivered, stream, group_exists, last_delivered, acked,
                   completion, progress, settings, keep_polling, active,
                   invocations, other_vars>>

\* XREADGROUP with cursor ">": every entry after the group's last-delivered
\* id becomes pending for the caller, which exists in the group afterwards.
fresh_read(c) ==
    /\ pc[c] = "fresh"
    /\ LET read == (last_delivered + 1)..Len(stream)
       IN /\ pel' = [pel EXCEPT ![c] = @ \cup read]
          /\ last_delivered' = Len(stream)
          /\ delivered' = delivered \cup read
          /\ pc' = [pc EXCEPT ![c] = after_fresh(read)]
          /\ batch' = [batch EXCEPT ![c] = organize_messages(read)]
          /\ read_from' = [read_from EXCEPT ![c] =
                             IF after_fresh(read) = "dispatch"
                             THEN "fresh" ELSE "none"]
    /\ consumers' = consumers \cup {c}
    /\ UNCHANGED <<stream, group_exists, idle, acked, lock, completion,
                   progress, settings, listed, keep_polling, active,
                   invocations, other_vars>>

\* ----------------------------------------------------------- acknowledging
\* A faulty return_message_to_inbox that claims every entry up to the id.
return_messages_to_inbox(message_id, give_to) ==
    XCLAIM(give_to, Claimable(1..message_id, 0))

\* return_message_to_inbox: one XCLAIM of the id for the inbox (or give_to)
\* with min_idle_time=0.
return_message_to_inbox(message_id, give_to) ==
    XCLAIM(give_to, Claimable({message_id}, 0))

\* A faulty give_up_message that leaves the message with its owner.
keep_message(message_id) ==
    UNCHANGED <<pel, idle, consumers, acked, completion>>

\* GroupConsumer.give_up_message: hands the message to the inbox.
give_up_message(message_id) ==
    /\ return_message_to_inbox(message_id, Inbox)
    /\ UNCHANGED <<acked, completion>>

\* mark_message_as_complete, the number of entries of the message's hash that
\* are not true once the caller's own entry has been set.
number_of_incomplete_processes(message_id, consumer_name) ==
    Cardinality({n \in Names \ {consumer_name} :
                    completion[message_id][n] = "0"})

\* mark_message_as_complete (called by GroupConsumer.mark_message_processed),
\* under the message's lock: the caller's entry of the hash is set; with no
\* incomplete entry left the hash is deleted and the id is acknowledged,
\* otherwise the message is handed to the inbox.
mark_message_as_complete(consumer_name, message_id) ==
    IF number_of_incomplete_processes(message_id, consumer_name) = 0
    THEN /\ completion' = [completion EXCEPT
                             ![message_id] = [n \in Names |-> "absent"]]
         /\ XACK(message_id)
         /\ UNCHANGED consumers
    ELSE /\ completion' = [completion EXCEPT
                             ![message_id][consumer_name] = "1"]
         /\ return_message_to_inbox(message_id, Inbox)
         /\ UNCHANGED acked

\* ---------------------------------------------------------------- dispatch
\* The listener takes the next message of its batch; after the last one the
\* loop guard is evaluated again.
after_message(c) ==
    /\ batch' = [batch EXCEPT ![c] = Tail(@)]
    /\ pc' = [pc EXCEPT ![c] = IF Tail(batch[c]) = <<>> THEN "loop"
                              ELSE "dispatch"]

\* The invocation of handlers for a message, counted up to `counted`.
invoked(message_id, handlers, counted) ==
    invocations' = [invocations EXCEPT ![message_id] =
                      [h \in Handlers |->
                         IF h \in handlers THEN Min(@[h] + 1, counted)
                         ELSE @[h]]]

\* HandlerReader.process_message for the next message of the batch.
handler_process_message(c, counted) ==
    /\ kind = "handler"
    /\ pc[c] = "dispatch"
    /\ LET message_id == Head(batch[c])
           matches == stream[message_id] = ConfiguredEvent
           processed == ~matches \/ GroupHandler \notin failing
           called == IF matches THEN {GroupHandler} ELSE {}
       IN /\ invoked(message_id, called, counted)
          /\ IF processed
             THEN mark_message_as_complete(c, message_id)
             ELSE give_up_message(message_id)
    /\ after_message(c)
    /\ UNCHANGED <<delivered, stream, group_exists, last_delivered, lock,
                   progress, settings, listed, read_from, keep_polling,
                   active, other_vars>>

\* EventBus.process_message for the next message of the batch: every handler
\* configured for the event is invoked and what it raises is logged.
bus_process_message(c, counted) ==
    /\ kind = "bus"
    /\ pc[c] = "dispatch"
    /\ LET message_id == Head(batch[c])
       IN invoked(message_id, Range(get_handlers(stream[message_id])), counted)
    /\ after_message(c)
    /\ UNCHANGED <<delivered, stream, group_exists, last_delivered,
                   consumers, pel, idle, acked, lock, completion, progress,
                   settings, listed, read_from, keep_polling, active,
                   other_vars>>

\* ---------------------------------------------------------- remove_consumer
\* A faulty transfer_messages_to_inbox that lists nothing, so that the
\* consumer is deleted with its pending entries.
transfer_nothing(source_consumer) == {}

\* transfer_messages_to_inbox: the ids pending for the source consumer.
transfer_message_ids(source_consumer) ==
    XPENDING_RANGE(source_consumer, 9999999)

\* transfer_messages_to_inbox, first half: take the group lock and list the
\* consumer's pending entries; with none listed the function returns.
transfer_list(c) ==
    /\ pc[c] = "remove"
    /\ lock = {}
    /\ LET message_ids == transfer_message_ids(c)
       IN /\ listed' = [listed EXCEPT ![c] = message_ids]
          /\ lock' = IF message_ids = {} THEN {} ELSE {c}
          /\ pc' = [pc EXCEPT ![c] =
                      IF message_ids = {} THEN "delete" ELSE "transfer_claim"]
    /\ UNCHANGED <<delivered, stream, group_exists, last_delivered,
                   consumers, pel, idle, acked, completion, progress,
                   settings, batch, read_from, keep_polling, active,
                   invocations, other_vars>>

\* transfer_messages_to_inbox, second half: claim the listed entries for the
\* inbox with min_idle_time=0 and release the lock.
transfer_claim(c) ==
    /\ pc[c] = "transfer_claim"
    /\ XCLAIM(Inbox, Claimable(listed[c], 0))
    /\ lock' = {}
    /\ listed' = [listed EXCEPT ![c] = {}]
    /\ pc' = [pc EXCEPT ![c] = "delete"]
    /\ UNCHANGED <<delivered, stream, group_exists, last_delivered, acked,
                   completion, progress, settings, batch, read_from,
                   keep_polling, active, invocations, other_vars>>

\* remove_consumer, after the transfer: XGROUP DELCONSUMER deletes the
\* consumer together with whatever is still pending for it; the consumer
\* object becomes inactive.
delete_consumer(c) ==
    /\ pc[c] = "delete"
    /\ pel' = [pel EXCEPT ![c] = {}]
    /\ idle' = [m \in Msgs |-> IF m \in pel[c] THEN 0 ELSE idle[m]]
    /\ consumers' = consumers \ {c}
    /\ active' = [active EXCEPT ![c] = FALSE]
    /\ pc' = [pc EXCEPT ![c] = "done"]
    /\ UNCHANGED <<delivered, stream, group_exists, last_delivered, acked,
                   lock, completion, progress, settings, listed, batch,
                   read_from, keep_polling, invocations, other_vars>>

\* transfer_messages_to_inbox raises in remove_consumer (the lock cannot be
\* made or taken, or the store refuses the listing or the claim): the lock,
\* when held, is released by its context, remove_consumer logs the
\* exception and goes on to delete the consumer.
transfer_raises(c) ==
    /\ pc[c] \in {"remove", "transfer_claim"}
    /\ lock' = lock \ {c}
    /\ listed' = [listed EXCEPT ![c] = {}]
    /\ pc' = [pc EXCEPT ![c] = "delete"]
    /\ UNCHANGED <<delivered, stream, group_exists, last_delivered,
                   consumers, pel, idle, acked, completion, progress,
                   settings, batch, read_from, keep_polling, active,
                   invocations, other_vars>>

\* ------------------------------------------------------------ specification
\* The steps of the consumer protocol that both listener kinds share.
Running(c) ==
    \/ listen(c)
    \/ poll(c)
    \/ inbox_list(c)
    \/ inbox_claim(c)
    \/ idle_list(c, excluded, max_idle_time)
    \/ idle_claim(c, max_idle_time)
    \/ fresh_read(c)

Stopping(c) ==
    \/ stop_polling(c)
    \/ transfer_list(c)
    \/ transfer_claim(c)
    \/ delete_consumer(c)

Next ==
    \/ \E e \in Events : xadd(e, MaxMsgs)
    \/ Tick
    \/ \E c \in Consumers :
        \/ Running(c)
        \/ Stopping(c)
        \/ handler_process_message(c, 0)
        \/ bus_process_message(c, 0)

Spec == Init /\ [][Next]_vars

\* Listeners of either kind that are never stopped, on a stream of at most
\* MaxRetryMsgs entries.
Step(c) ==
    \/ Running(c)
    \/ handler_process_message(c, InvocationCap)
    \/ bus_process_message(c, InvocationCap)

NextRetry ==
    \/ \E e \in Events : xadd(e, MaxRetryMsgs)
    \/ Tick
    \/ \E c \in Consumers : Step(c)

\* Every listener task keeps being scheduled and time keeps passing.
Fairness ==
    /\ WF_vars(Tick)
    /\ \A c \in Consumers : WF_vars(Step(c))

SpecRetry == InitRetry /\ [][NextRetry]_vars /\ Fairness

\* Listeners that are never stopped, whose reads look for idle messages with
\* some exclude list, with the default idle time or the shorter ShortIdleMs.
ShortIdleMs == TickMs

InitExclude ==
    /\ Start
    /\ OthersAtRest
    /\ excluded \in SUBSET Msgs
    /\ max_idle_time \in {ShortIdleMs, MAX_IDLE_TIME_MS}
    /\ kind \in {"handler", "bus"}
    /\ failing \in (IF kind = "handler" THEN SUBSET {GroupHandler} ELSE {{}})

NextExclude ==
    \/ \E e \in Events : xadd(e, MaxMsgs)
    \/ Tick
    \/ \E c \in Consumers :
        \/ Running(c)
        \/ handler_process_message(c, 0)
        \/ bus_process_message(c, 0)

SpecExclude == InitExclude /\ [][NextExclude]_vars

\* Listeners that may be told to stop polling at any time, on a stream of at
\* most MaxRetryMsgs entries.  Every listener task keeps being scheduled, also
\* when it has to wait for the group lock, and time keeps passing; nothing
\* obliges anybody to call stop_polling or to append to the stream.
StopStep(c) ==
    \/ Running(c)
    \/ transfer_list(c)
    \/ transfer_claim(c)
    \/ delete_consumer(c)
    \/ handler_process_message(c, 0)
    \/ bus_process_message(c, 0)

NextStop ==
    \/ \E e \in Events : xadd(e, MaxRetryMsgs)
    \/ Tick
    \/ \E c \in Consumers :
        \/ StopStep(c)
        \/ stop_polling(c)

FairStop ==
    /\ WF_vars(Tick)
    /\ \A c \in Consumers : SF_vars(StopStep(c))

SpecStop == Init /\ [][NextStop]_vars /\ FairStop

\* Listeners of either kind that are never stopped, on a stream of at most
\* MaxMsgs entries; invocations are not counted.
ListenerStep(c) ==
    \/ Running(c)
    \/ handler_process_message(c, 0)
    \/ bus_process_message(c, 0)

NextBacklog ==
    \/ \E e \in Events : xadd(e, MaxMsgs)
    \/ Tick
    \/ \E c \in Consumers : ListenerStep(c)

\* Every listener task keeps being scheduled and time keeps passing.
FairBacklog ==
    /\ WF_vars(Tick)
    /\ \A c \in Consumers : WF_vars(ListenerStep(c))

SpecBacklog == Init /\ [][NextBacklog]_vars /\ FairBacklog

\* HandlerReader.process_message for the next message of the batch, with a
\* handler that raises for some invocations and returns for others.
flaky_process_message(c) ==
    /\ kind = "handler"
    /\ pc[c] = "dispatch"
    /\ LET message_id == Head(batch[c])
           matches == stream[message_id] = ConfiguredEvent
           called == IF matches THEN {GroupHandler} ELSE {}
       IN /\ invoked(message_id, called, 0)
          /\ \E raised \in BOOLEAN :
                IF ~matches \/ ~raised
                THEN mark_message_as_complete(c, message_id)
                ELSE give_up_message(message_id)
    /\ after_message(c)
    /\ UNCHANGED <<delivered, stream, group_exists, last_delivered, lock,
                   progress, settings, listed, read_from, keep_polling,
                   active, other_vars>>

\* Listeners of either kind that may be stopped, on a stream of at most
\* MaxMsgs entries; the handler of a Handler Group raises when it pleases.
NextFlaky ==
    \/ \E e \in Events : xadd(e, MaxMsgs)
    \/ Tick
    \/ \E c \in Consumers :
        \/ Running(c)
        \/ Stopping(c)
        \/ flaky_process_message(c)
        \/ bus_process_message(c, 0)

SpecFlaky == Init /\ [][NextFlaky]_vars

\* Listeners of either kind that may be stopped, whose transfer to the inbox
\* may raise when they are removed.
NextRemove ==
    \/ Next
    \/ \E c \in Consumers : transfer_raises(c)

SpecRemove == Init /\ [][NextRemove]_vars

\* --------------------------------------------------------- the master stream
\* The instances share one application name; a message may name another.
LocalName == "svc"
ApplicationNames == {"svc", "other"}
MasterEvents == {"get_instance", "close_streams"}

\* A message as it is appended by a producer: response_to is not set.
Published(event, application_name, application_instance) ==
    [event |-> event, application_name |-> application_name,
     application_instance |-> application_instance, response_to |-> 0]

Requests == {k \in 1..Len(master_stream) : master_stream[k].response_to = 0}

\* The event stream's group and the lock are not used.
MasterOnly ==
    UNCHANGED <<stream, group_exists, last_delivered, consumers, pel, idle,
                delivered, acked, lock, completion, progress, settings, pc,
                listed, batch, read_from, keep_polling, active, invocations,
                lock_vars, api_vars, operations_vars,
                order_vars, trim_vars, message_vars>>

\* Message.send by a producer: one XADD on the master stream.
publish(event, application_name, application_instance) ==
    /\ Cardinality(Requests) < MaxPublished
    /\ master_stream' = Append(master_stream,
           Published(event, application_name, application_instance))
    /\ UNCHANGED <<master_handler, master_executive, master_pc,
                   master_last_delivered, master_pel, master_inbox,
                   master_acked, message_processes, response_processes,
                   master_keep_polling, master_active, cancelling>>
    /\ MasterOnly

\* Message.create_response: a copy of the message with "_response" appended
\* to its event and the identity of the responding instance.
create_response(message, application_name, application_instance) ==
    [message EXCEPT !.event = @ \o "_response",
                    !.application_name = application_name,
                    !.application_instance = application_instance]

\* A faulty get_instance that answers with the identity found on the request.
get_instance_echo(i, message) ==
    create_response(message, message.application_name,
                    message.application_instance)

\* The get_instance handler: the response carries the application name and
\* the instance identifier of the listener's configuration.
get_instance(i, message) == create_response(message, LocalName, i)

\* A faulty comparison that looks at the application name only.
applies_to_application(i, message) == LocalName = message.application_name

\* close_streams, message_applies_here: both the application name and the
\* instance identifier of the message are the local ones.
message_applies_here(i, message) ==
    /\ LocalName = message.application_name
    /\ i = message.application_instance

\* The close_streams handler.  A MasterHandlerReader's
\* can_make_executive_decisions is a method that returns True; that of any
\* other reader is a property whose value, False, the handler calls: a
\* TypeError.  The conjunction is not evaluated further when the message does
\* not apply.
close_streams(i, message) ==
    IF ~message_applies_here(i, message) THEN "ignored"
    ELSE IF master_executive THEN "stop_polling"
    ELSE "TypeError"

\* What the listener's handler does with a message of the configured event.
handle(i, message) ==
    IF master_handler = "get_instance" THEN "responded"
    ELSE close_streams(i, message)

\* The loop guard of listen.
master_poll(i) ==
    /\ master_pc[i] = "loop"
    /\ master_pc' = [master_pc EXCEPT ![i] =
                       IF master_keep_polling[i] THEN "read" ELSE "remove"]
    /\ UNCHANGED <<master_stream, master_handler, master_executive,
                   master_last_delivered, master_pel, master_inbox,
                   master_acked, message_processes, response_processes,
                   master_keep_polling, master_active, cancelling>>
    /\ MasterOnly

\* consumer.read() in a group whose only reader is the caller: what is pending
\* for the inbox is claimed and returned; otherwise, the caller having nothing
\* pending that idle reclaim could find, the new entries of the stream are
\* read; with neither, the call does not return.
master_read(i) ==
    /\ master_pc[i] = "read"
    /\ LET dead == master_inbox[i]
           new == (master_last_delivered[i] + 1)..Len(master_stream)
           messages == IF dead # {} THEN dead ELSE new
       IN /\ messages # {}
          /\ master_pel' = [master_pel EXCEPT ![i] = @ \cup messages]
          /\ master_inbox' = [master_inbox EXCEPT ![i] = {}]
          /\ master_last_delivered' =
                IF dead # {} THEN master_last_delivered
                ELSE [master_last_delivered EXCEPT ![i] = Len(master_stream)]
          /\ message_processes' = [message_processes EXCEPT ![i] =
                                     organize_messages(messages)]
    /\ master_pc' = [master_pc EXCEPT ![i] = "dispatch"]
    /\ UNCHANGED <<master_stream, master_handler, master_executive,
                   master_acked, response_processes, master_keep_polling,
                   master_active, cancelling>>
    /\ MasterOnly

\* A faulty listen that reads again without awaiting the responses.
next_process_unawaited(i) ==
    /\ message_processes' = [message_processes EXCEPT ![i] = Tail(@)]
    /\ master_pc' = [master_pc EXCEPT ![i] =
                       IF Tail(message_processes[i]) = <<>> THEN "loop"
                       ELSE "dispatch"]

\* The next message of the batch has been processed, in whatever way.
next_process(i) ==
    /\ message_processes' = [message_processes EXCEPT ![i] = Tail(@)]
    /\ master_pc' = [master_pc EXCEPT ![i] =
                       IF Tail(message_processes[i]) = <<>> THEN "respond"
                       ELSE "dispatch"]

\* mark_message_processed in a group with one reader: XACK.
master_ack(i, message_id) ==
    /\ master_pel' = [master_pel EXCEPT ![i] = @ \ {message_id}]
    /\ master_acked' = [master_acked EXCEPT ![i] = @ \cup {message_id}]
    /\ UNCHANGED master_inbox

\* give_up_message: the message is claimed for the inbox.
master_give_up(i, message_id) ==
    /\ master_pel' = [master_pel EXCEPT ![i] = @ \ {message_id}]
    /\ master_inbox' = [master_inbox EXCEPT ![i] = @ \cup {message_id}]
    /\ UNCHANGED master_acked

\* HandlerReader.process_message for the next message of the batch, and what
\* listen does with its result: the handler is invoked for a message of the
\* configured event; when it raises, the message is given up, otherwise it is
\* marked as processed; a Message it returns is a response to send once the
\* batch is done, in reply to the message.
master_dispatch(i) ==
    /\ master_pc[i] = "dispatch"
    /\ LET message_id == Head(message_processes[i])
           message == master_stream[message_id]
           result == IF message.event = master_handler
                     THEN handle(i, message) ELSE "skipped"
       IN /\ IF result = "TypeError"
             THEN master_give_up(i, message_id)
             ELSE master_ack(i, message_id)
          /\ master_keep_polling' =
                IF result = "stop_polling"
                THEN [master_keep_polling EXCEPT ![i] = FALSE]
                ELSE master_keep_polling
          /\ response_processes' =
                IF result = "responded"
                THEN [response_processes EXCEPT ![i] = Append(@,
                        [get_instance(i, message) EXCEPT
                            !.response_to = message_id])]
                ELSE response_processes
    /\ next_process(i)
    /\ UNCHANGED <<master_stream, master_handler, master_executive,
                   master_last_delivered, master_active, cancelling>>
    /\ MasterOnly

\* asyncio.gather(*response_processes): each response is sent with one XADD on
\* the listener's stream; after the last one the loop guard is evaluated.
master_respond(i) ==
    /\ master_pc[i] = "respond"
    /\ IF response_processes[i] = <<>>
       THEN /\ master_pc' = [master_pc EXCEPT ![i] = "loop"]
            /\ UNCHANGED <<master_stream, response_processes>>
       ELSE /\ master_stream' =
                  Append(master_stream, Head(response_processes[i]))
            /\ response_processes' =
                  [response_processes EXCEPT ![i] = Tail(@)]
            /\ master_pc' = [master_pc EXCEPT ![i] =
                  IF Tail(response_processes[i]) = <<>> THEN "loop"
                  ELSE "respond"]
    /\ UNCHANGED <<master_handler, master_executive, master_last_delivered,
                   master_pel, master_inbox, master_acked, message_processes,
                   master_keep_polling, master_active, cancelling>>
    /\ MasterOnly

\* GroupConsumer.__aexit__, remove_consumer: what is pending for the consumer
\* goes to the inbox and the consumer is deleted.
master_remove(i) ==
    /\ master_pc[i] = "remove"
    /\ master_inbox' = [master_inbox EXCEPT ![i] = @ \cup master_pel[i]]
    /\ master_pel' = [master_pel EXCEPT ![i] = {}]
    /\ master_active' = [master_active EXCEPT ![i] = FALSE]
    /\ master_pc' = [master_pc EXCEPT ![i] = "done"]
    /\ UNCHANGED <<master_stream, master_handler, master_executive,
                   master_last_delivered, master_acked, message_processes,
                   response_processes, master_keep_polling, cancelling>>
    /\ MasterOnly

MasterStep(i) ==
    \/ master_poll(i)
    \/ master_read(i)
    \/ master_dispatch(i)
    \/ master_respond(i)
    \/ master_remove(i)

\* Running instances whose listeners all run the same master function, as
\* MasterHandlerReaders or as plain HandlerReaders.
InitMaster ==
    /\ Start
    /\ Defaults
    /\ kind = "handler"
    /\ failing = {}
    /\ MasterStart
    /\ master_handler \in MasterEvents
    /\ master_executive \in BOOLEAN
    /\ LockStart
    /\ ApiStart
    /\ OperationsStart
    /\ OrderStart
    /\ TrimStart
    /\ MessagesStart

NextMaster ==
    \/ publish("get_instance", "other", 1)
    \/ \E n \in ApplicationNames : \E a \in Instances :
          publish("close_streams", n, a)
    \/ \E i \in Instances : MasterStep(i)

\* Every listener task keeps being scheduled.
FairMaster == \A i \in Instances : WF_vars(MasterStep(i))

SpecMaster == InitMaster /\ [][NextMaster]_vars /\ FairMaster

\* EventStreamReader.close on a listener whose task is still running: the
\* flag is cleared and the task is cancelled, which raises CancelledError at
\* the await the task is suspended in.
\*  - In consumer.read() or in the gather of the responses nothing catches
\*    it: the loop is left through the consumer's context (remove_consumer).
\*  - While a message is processed, the await is a store command of
\*    mark_message_processed or give_up_message, which has taken effect or has
\*    not; `except BaseException` in listen catches the error, the message's
\*    response is lost, and the for loop goes on with the next message.
\*  - In remove_consumer `except Exception` does not catch it: the task ends
\*    with the consumer neither emptied nor deleted.
close(i) ==
    /\ master_pc[i] # "done"
    /\ ~cancelling[i]
    /\ cancelling' = [cancelling EXCEPT ![i] = TRUE]
    /\ master_keep_polling' = [master_keep_polling EXCEPT ![i] = FALSE]
    /\ IF master_pc[i] = "dispatch"
       THEN LET message_id == Head(message_processes[i])
                message == master_stream[message_id]
                result == IF message.event = master_handler
                          THEN handle(i, message) ELSE "skipped"
            IN /\ \E took_effect \in BOOLEAN :
                     IF ~took_effect
                     THEN UNCHANGED <<master_pel, master_inbox, master_acked>>
                     ELSE IF result = "TypeError"
                          THEN master_give_up(i, message_id)
                          ELSE master_ack(i, message_id)
               /\ next_process(i)
               /\ UNCHANGED response_processes
       ELSE /\ master_pc' = [master_pc EXCEPT ![i] =
                               IF @ = "remove" THEN "done" ELSE "remove"]
            /\ response_processes' = [response_processes EXCEPT ![i] = <<>>]
            /\ UNCHANGED <<master_pel, master_inbox, master_acked,
                           message_processes>>
    /\ UNCHANGED <<master_stream, master_handler, master_executive,
                   master_last_delivered, master_active>>
    /\ MasterOnly

\* Message.send raises for the response being sent (the store refuses the
\* XADD, or the message lacks an application name or instance): gather, called
\* without return_exceptions, raises it in listen, which is left through the
\* consumer's context; the sends still under way are not followed further.
send_raises(i) ==
    /\ master_pc[i] = "respond"
    /\ response_processes[i] # <<>>
    /\ response_processes' = [response_processes EXCEPT ![i] = <<>>]
    /\ master_pc' = [master_pc EXCEPT ![i] = "remove"]
    /\ UNCHANGED <<master_stream, master_handler, master_executive,
                   master_last_delivered, master_pel, master_inbox,
                   master_acked, message_processes, master_keep_polling,
                   master_active, cancelling>>
    /\ MasterOnly

\* Listeners on the master stream that may be closed at any time and whose
\* sends may raise.
NextClose ==
    \/ NextMaster
    \/ \E i \in Instances : close(i)
    \/ \E i \in Instances : send_raises(i)

SpecClose == InitMaster /\ [][NextClose]_vars /\ FairMaster

\* ---------------------------------------------------------------- LuaSafeLock

\* The functions that create_consumer reaches and that use the group's lock.
Functions == {"add_consumer", "add_group"}

\* What the code that uses a lock leaves alone.
LockOnly ==
    UNCHANGED <<stream, group_exists, last_delivered, consumers, pel, idle,
                delivered, acked, lock, completion, progress, settings, pc,
                listed, batch, read_from, keep_polling, active, invocations,
                master_vars, api_vars, operations_vars,
                order_vars, trim_vars, message_vars>>

\* LuaSafeLock._get_internal_trace: the frames of the code that called the
\* lock, without line numbers, cut off where the lock's own frames begin.
internal_trace(o) == call_stack[o]

\* Lock.locked and Lock.owned: the name is in the store and its value is the
\* token of this lock object.
owned(o) == lock_key = o /\ token[o]

\* LuaSafeLock.release, were a release from a nested scope no different from
\* one from an unrelated scope.
release_unnested(current_trace, stack) ==
    IF stack = <<>> THEN "raise"
    ELSE IF current_trace = stack THEN "matched"
    ELSE IF /\ Len(current_trace) < Len(stack)
            /\ SubSeq(stack, 1, Len(current_trace)) = current_trace THEN "late"
    ELSE "other"

\* LuaSafeLock.release, were every release from another scope than the
\* recorded one ignored.
release_matched_only(current_trace, stack) ==
    IF stack = <<>> THEN "raise"
    ELSE IF current_trace = stack THEN "matched"
    ELSE "nested"

\* LuaSafeLock.release: the branch taken for the trace of the release and the
\* recorded stack; a slice longer than the sequence is the whole sequence.
release_branch(current_trace, stack) ==
    IF stack = <<>> THEN "raise"
    ELSE IF current_trace = stack THEN "matched"
    ELSE IF /\ Len(current_trace) < Len(stack)
            /\ SubSeq(stack, 1, Len(current_trace)) = current_trace THEN "late"
    ELSE IF /\ Len(current_trace) >= Len(stack)
            /\ SubSeq(current_trace, 1, Len(stack)) = stack THEN "nested"
    ELSE "other"

\* The code that uses lock object o calls a function.
call(o, function) ==
    /\ Len(call_stack[o]) <= MaxDepth
    /\ call_stack' = [call_stack EXCEPT ![o] = Append(@, function)]
    /\ UNCHANGED <<lock_key, token, lock_stack, returned>>
    /\ LockOnly

\* The function that uses lock object o returns to its caller.
return(o) ==
    /\ Len(call_stack[o]) > 1
    /\ call_stack' = [call_stack EXCEPT ![o] = SubSeq(@, 1, Len(@) - 1)]
    /\ UNCHANGED <<lock_key, token, lock_stack, returned>>
    /\ LockOnly

\* LuaSafeLock.acquire: the holder is answered True at once; another caller
\* records its trace and waits in Lock.acquire until the name is absent.
acquire(o) ==
    /\ IF owned(o)
         THEN /\ returned' = [returned EXCEPT ![o] = "held"]
              /\ UNCHANGED <<lock_key, token, lock_stack>>
         ELSE /\ lock_key = 0
              /\ lock_stack' = [lock_stack EXCEPT ![o] = internal_trace(o)]
              /\ lock_key' = o
              /\ token' = [token EXCEPT ![o] = TRUE]
              /\ returned' = [returned EXCEPT ![o] = "acquired"]
    /\ UNCHANGED call_stack
    /\ LockOnly

\* LuaSafeLock.release. Lock.release raises without a token; otherwise it
\* drops the token and do_release removes the name and forgets the recorded
\* stack.  The script deletes the name when it holds this object's token;
\* when it holds anything else the script's refusal is a LockError, and like
\* a missing script it is answered by a plain delete of the name.
release(o) ==
    /\ LET branch == release_branch(internal_trace(o), lock_stack[o]) IN
         IF branch = "raise" \/ (branch # "nested" /\ ~token[o])
           THEN /\ returned' = [returned EXCEPT ![o] = "raised"]
                /\ UNCHANGED <<lock_key, token, lock_stack>>
         ELSE IF branch = "nested"
           THEN /\ returned' = [returned EXCEPT ![o] = "nested"]
                /\ UNCHANGED <<lock_key, token, lock_stack>>
         ELSE /\ returned' = [returned EXCEPT ![o] = branch]
              /\ token' = [token EXCEPT ![o] = FALSE]
              /\ lock_key' = 0
              /\ lock_stack' = [lock_stack EXCEPT ![o] = <<>>]
    /\ UNCHANGED call_stack
    /\ LockOnly

\* The lock objects of one name, each used by its own code.
InitLock ==
    /\ Start
    /\ Defaults
    /\ kind = "handler"
    /\ failing = {}
    /\ MasterStart
    /\ master_handler = "get_instance"
    /\ master_executive = TRUE
    /\ LockStart
    /\ ApiStart
    /\ OperationsStart
    /\ OrderStart
    /\ TrimStart
    /\ MessagesStart

NextLock ==
    \/ \E o \in LockObjects : \E function \in Functions : call(o, function)
    \/ \E o \in LockObjects : return(o)
    \/ \E o \in LockObjects : acquire(o)
    \/ \E o \in LockObjects : release(o)

SpecLock == InitLock /\ [][NextLock]_vars

\* unlock.py, main, once the operator has confirmed: every key of the
\* application that ends in LOCK and holds a string is deleted, whoever owns
\* it.
unlock ==
    /\ lock_key # 0
    /\ lock_key' = 0
    /\ UNCHANGED <<token, lock_stack, call_stack, returned>>
    /\ LockOnly

\* The lock objects of one name and an operator who runs the unlock tool.
NextUnlock ==
    \/ NextLock
    \/ unlock

SpecUnlock == InitLock /\ [][NextUnlock]_vars

\* ----------------------------------------------------------- add_consumer
\* A faulty add_group that does not create the inbox consumer.
add_group_alone(group_consumers) == group_consumers

\* add_group: the consumers of the group once XGROUP CREATECONSUMER has been
\* issued for the inbox; creating a consumer that exists changes nothing.
add_group(group_consumers) == group_consumers \cup {Inbox}

\* add_consumer, under the group lock: add_group issues XGROUP CREATE with
\* mkstream, whose BUSYGROUP answer for a group that exists is swallowed, and
\* creates the inbox consumer; then the named consumer is created and looked
\* up among the group's consumers.  No listener is started by it.
add_consumer(c) ==
    /\ pc[c] = "new"
    /\ lock = {}
    /\ group_exists' = TRUE
    /\ last_delivered' = IF group_exists THEN last_delivered ELSE Len(stream)
    /\ consumers' = add_group(consumers) \cup {c}
    /\ UNCHANGED <<delivered, stream, pel, idle, acked, lock, completion,
                   progress, settings, pc, listed, batch, read_from,
                   keep_polling, active, invocations, other_vars>>

\* Consumers that are added to the group by add_consumer, by a listener's
\* create_consumer or by both, while listeners run and stop, on a stream of
\* at most MaxRetryMsgs entries.
NextCreate ==
    \/ \E e \in Events : xadd(e, MaxRetryMsgs)
    \/ Tick
    \/ \E c \in Consumers :
        \/ add_consumer(c)
        \/ Running(c)
        \/ Stopping(c)
        \/ handler_process_message(c, 0)
        \/ bus_process_message(c, 0)

SpecCreate == Init /\ [][NextCreate]_vars

\* ------------------------------------------------------------ give_up_message
\* organize_messages of what XCLAIM answered: the claimed entries keyed by id,
\* each with the payload stored in the stream.
claimed_data(ids) == [m \in ids |-> stream[m]]

\* GroupConsumer.give_up_message called by the code that holds an active
\* consumer, for a message that is pending for it; give_to defaults to the
\* inbox.
give_up(c, message_id, give_to) ==
    /\ active[c]
    /\ message_id \in pel[c]
    /\ return_message_to_inbox(message_id, give_to)
    /\ call_result' = claimed_data(Claimable({message_id}, 0))
    /\ UNCHANGED <<delivered, stream, group_exists, last_delivered, acked,
                   lock, completion, progress, settings, pc, listed, batch,
                   read_from, keep_polling, active, invocations, master_vars,
                   lock_vars, marked, operations_vars,
                order_vars, trim_vars, message_vars>>

\* Listeners of a Handler Group that are never stopped, and messages given up
\* at any time by the consumer they are pending for, to the inbox or to a
\* consumer.
InitRelease ==
    /\ Start
    /\ OthersAtRest
    /\ Defaults
    /\ kind = "handler"
    /\ failing \in SUBSET {GroupHandler}

NextRelease ==
    \/ \E e \in Events : xadd(e, MaxMsgs)
    \/ Tick
    \/ \E c \in Consumers :
        \/ Running(c)
        \/ handler_process_message(c, 0)
        \/ \E m \in Msgs : \E give_to \in Names : give_up(c, m, give_to)

SpecRelease == InitRelease /\ [][NextRelease]_vars

\* ------------------------------------------------------ mark_message_processed
\* add_record_to_consumer: HSETNX of a false entry for the consumer.
add_record_to_consumer(record, consumer_name) ==
    IF record[consumer_name] = "absent"
    THEN [record EXCEPT ![consumer_name] = "0"]
    ELSE record

\* apply_message_to_all, under the message's lock: every consumer of the
\* group, the inbox included, gets an entry in the message's hash unless it
\* has one.
apply_message_to_all(message_id) ==
    /\ group_exists
    /\ message_id \in 1..Len(stream)
    /\ completion' = [completion EXCEPT ![message_id] =
                        [n \in Names |->
                           IF n \in consumers
                           THEN add_record_to_consumer(@, n)[n] ELSE @[n]]]
    /\ UNCHANGED <<delivered, stream, group_exists, last_delivered,
                   consumers, pel, idle, acked, lock, progress, settings, pc,
                   listed, batch, read_from, keep_polling, active,
                   invocations, other_vars>>

\* A faulty mark_message_as_complete that answers True in any case.
marked_in_any_case(consumer_name, message_id) == TRUE

\* mark_message_as_complete: the answer, True on the branch that deletes the
\* hash and acknowledges, False on the branch that hands over to the inbox.
marked_as_complete(consumer_name, message_id) ==
    number_of_incomplete_processes(message_id, consumer_name) = 0

\* GroupConsumer.mark_message_processed called for any id of the stream by
\* the code that holds an active consumer.
mark_message_processed(c, message_id) ==
    /\ active[c]
    /\ message_id \in 1..Len(stream)
    /\ mark_message_as_complete(c, message_id)
    /\ marked' = {marked_as_complete(c, message_id)}
    /\ UNCHANGED <<delivered, stream, group_exists, last_delivered, lock,
                   progress, settings, pc, listed, batch, read_from,
                   keep_polling, active, invocations, master_vars, lock_vars,
                   call_result, operations_vars,
                order_vars, trim_vars, message_vars>>

\* Listeners that are never stopped, on a stream of at most MaxRetryMsgs
\* entries; messages are applied to all consumers and marked as processed at
\* any time.
NextMark ==
    \/ \E e \in Events : xadd(e, MaxRetryMsgs)
    \/ Tick
    \/ \E m \in Msgs : apply_message_to_all(m)
    \/ \E c \in Consumers :
        \/ Running(c)
        \/ handler_process_message(c, 0)
        \/ bus_process_message(c, 0)
        \/ \E m \in Msgs : mark_message_processed(c, m)

SpecMark == Init /\ [][NextMark]_vars

\* ------------------------------------------------------------- purge_consumers
\* PurgeMessage.consumer is optional.
NoConsumer == -1

\* XPENDING name group as the client library answers it: a mapping with the
\* four keys pending, min, max and consumers, whatever the group holds.
xpending == {"pending", "min", "max", "consumers"}

\* XGROUP DESTROY: the group goes with its consumers and pending entries.
xgroup_destroy ==
    /\ group_exists' = FALSE
    /\ last_delivered' = 0
    /\ consumers' = {}
    /\ pel' = [n \in Names |-> {}]
    /\ idle' = [m \in Msgs |-> 0]

\* purge_consumers run by a MasterHandlerReader for a group that exists.  The
\* pending entries of a named consumer are claimed for the inbox under the
\* group lock and the consumer is deleted; then the group is destroyed when
\* the answer of XPENDING has length 0, or when force is set.
purge_consumers(consumer, force) ==
    /\ group_exists
    /\ lock = {}
    /\ LET moved == IF consumer = NoConsumer THEN {}
                    ELSE Claimable(transfer_message_ids(consumer), 0)
       IN IF Cardinality(xpending) = 0 \/ force
          THEN xgroup_destroy
          ELSE /\ pel' = [n \in Names |->
                            IF n = consumer THEN {}
                            ELSE IF n = Inbox THEN pel[n] \cup moved
                            ELSE pel[n]]
               /\ idle' = [m \in Msgs |->
                             IF consumer # NoConsumer /\ m \in pel[consumer]
                             THEN 0 ELSE idle[m]]
               /\ consumers' = (IF moved = {} THEN consumers
                                ELSE consumers \cup {Inbox}) \ {consumer}
               /\ UNCHANGED <<group_exists, last_delivered>>
    /\ UNCHANGED <<delivered, stream, acked, lock, completion, progress,
                   settings, pc, listed, batch, read_from, keep_polling,
                   active, invocations, other_vars>>

\* A listener whose group has been destroyed is answered NOGROUP by the store
\* and is not followed further; a listener that starts creates the group.
PurgeStep(c) ==
    /\ pc[c] = "new" \/ group_exists
    /\ \/ Running(c)
       \/ handler_process_message(c, 0)
       \/ bus_process_message(c, 0)

\* Listeners that are never stopped, on a stream of at most MaxRetryMsgs
\* entries, and purge requests for the group with or without a consumer.
NextPurge ==
    \/ \E e \in Events : xadd(e, MaxRetryMsgs)
    \/ \E c \in Consumers : PurgeStep(c)
    \/ \E consumer \in Consumers \cup {NoConsumer} : \E force \in BOOLEAN :
          purge_consumers(consumer, force)

SpecPurge == Init /\ [][NextPurge]_vars

\* ------------------------------------------------- purge, command by command
\* The holder of the group lock that is the master handler's connection.
Purger == NumConsumers + 1

OperationsOnly ==
    UNCHANGED <<master_vars, lock_vars, api_vars, order_vars, trim_vars,
                message_vars>>

\* purge_consumers up to its first command on the group: the request is
\* taken; with a consumer named its pending entries are transferred first.
purge_begin(consumer, force) ==
    /\ purge_pc = "idle"
    /\ group_exists
    /\ purge_message' = [consumer |-> consumer, force |-> force]
    /\ purge_pc' = IF consumer = NoConsumer THEN "groups" ELSE "transfer"
    /\ UNCHANGED <<delivered, stream, group_exists, last_delivered,
                   consumers, pel, idle, acked, lock, completion, progress,
                   settings, pc, listed, batch, read_from, keep_polling,
                   active, invocations, purge_listed>>
    /\ OperationsOnly

\* transfer_messages_to_inbox called by purge_consumers, first half: take the
\* group lock and list the named consumer's pending entries; with none
\* listed the function returns and the lock is released.
purge_transfer_list ==
    /\ purge_pc = "transfer"
    /\ lock = {}
    /\ LET message_ids == transfer_message_ids(purge_message.consumer)
       IN /\ purge_listed' = message_ids
          /\ lock' = IF message_ids = {} THEN {} ELSE {Purger}
          /\ purge_pc' = IF message_ids = {} THEN "delete" ELSE "claim"
    /\ UNCHANGED <<delivered, stream, group_exists, last_delivered,
                   consumers, pel, idle, acked, completion, progress,
                   settings, pc, listed, batch, read_from, keep_polling,
                   active, invocations, purge_message>>
    /\ OperationsOnly

\* transfer_messages_to_inbox called by purge_consumers, second half: claim
\* the listed entries for the inbox and release the lock.
purge_transfer_claim ==
    /\ purge_pc = "claim"
    /\ XCLAIM(Inbox, Claimable(purge_listed, 0))
    /\ lock' = {}
    /\ purge_listed' = {}
    /\ purge_pc' = "delete"
    /\ UNCHANGED <<delivered, stream, group_exists, last_delivered, acked,
                   completion, progress, settings, pc, listed, batch,
                   read_from, keep_polling, active, invocations,
                   purge_message>>
    /\ OperationsOnly

\* purge_consumers, after the transfer: XGROUP DELCONSUMER deletes the named
\* consumer together with whatever is pending for it by then.
purge_delete ==
    /\ purge_pc = "delete"
    /\ pel' = [pel EXCEPT ![purge_message.consumer] = {}]
    /\ idle' = [m \in Msgs |->
                  IF m \in pel[purge_message.consumer] THEN 0 ELSE idle[m]]
    /\ consumers' = consumers \ {purge_message.consumer}
    /\ purge_pc' = "groups"
    /\ UNCHANGED <<delivered, stream, group_exists, last_delivered, acked,
                   lock, completion, progress, settings, pc, listed, batch,
                   read_from, keep_polling, active, invocations,
                   purge_message, purge_listed>>
    /\ OperationsOnly

\* purge_consumers, the end: the group is destroyed when the answer of
\* XPENDING has length 0, or when force is set.
purge_destroy ==
    /\ purge_pc = "groups"
    /\ IF Cardinality(xpending) = 0 \/ purge_message.force
       THEN xgroup_destroy
       ELSE UNCHANGED <<group_exists, last_delivered, consumers, pel, idle>>
    /\ purge_pc' = "idle"
    /\ purge_message' = <<>>
    /\ UNCHANGED <<delivered, stream, acked, lock, completion, progress,
                   settings, pc, listed, batch, read_from, keep_polling,
                   active, invocations, purge_listed>>
    /\ OperationsOnly

purge_step ==
    \/ purge_transfer_list
    \/ purge_transfer_claim
    \/ purge_delete
    \/ purge_destroy

\* Listeners that are never stopped, on a stream of at most MaxMsgs entries,
\* and, one at a time, purge requests for the group.
NextPurging ==
    \/ \E e \in Events : xadd(e, MaxMsgs)
    \/ \E c \in Consumers : PurgeStep(c)
    \/ \E consumer \in Consumers \cup {NoConsumer} : \E force \in BOOLEAN :
          purge_begin(consumer, force)
    \/ purge_step

SpecPurging == Init /\ [][NextPurging]_vars

\* ------------------------------------------------------- message variants
\* messages.parse: the subclasses of Message are weighed, ordered by weight
\* and tried in that order on the payload.
\*
\* A class is a number: Message is 0 and its subclasses are 1..MaxVariants in
\* the order of their definition, so the parent of a class has a smaller
\* number.  A field is a number: `event`, the one required field of Message,
\* is 0 and the fields the subclasses add are 1..MaxFields.  A payload is the
\* set of the fields it gives a valid value for.
Message == 0
Variants == 1..MaxVariants
Classes == {Message} \cup Variants
event == 0
FieldNames == {event} \cup (1..MaxFields)
None == -1
ValidationError == -2

\* len(inspect.getmro(Message)): Message, WeightedModel, ParseableModel, ABC,
\* BaseModel, Representation, Mapping, Collection, Sized, Iterable, Container,
\* object.
MessageMro == 12

\* The listeners, the master stream, the lock and the library's functions are
\* not used.
MessagesOnly ==
    UNCHANGED <<stream, group_exists, last_delivered, consumers, pel, idle,
                delivered, acked, lock, completion, progress, settings, pc,
                listed, batch, read_from, keep_polling, active, invocations,
                master_vars, lock_vars, api_vars, operations_vars,
                order_vars, trim_vars>>

ListenersAtRest ==
    /\ Start
    /\ Defaults
    /\ kind = "handler"
    /\ failing = {}
    /\ MasterStart
    /\ master_handler = "get_instance"
    /\ master_executive = TRUE
    /\ LockStart
    /\ ApiStart
    /\ OperationsStart
    /\ OrderStart
    /\ TrimStart

\* issubclass(cls, message_type)
RECURSIVE issubclass(_, _)
issubclass(cls, message_type) ==
    IF cls = message_type THEN TRUE
    ELSE IF cls = Message THEN FALSE
    ELSE issubclass(variants[cls].parent, message_type)

\* The names of cls.__fields__ whose field is required: those of the parent
\* and the ones the class adds.
RECURSIVE required(_)
required(cls) ==
    IF cls = Message THEN {event}
    ELSE required(variants[cls].parent) \cup variants[cls].own

\* len(inspect.getmro(cls))
RECURSIVE mro(_)
mro(cls) ==
    IF cls = Message THEN MessageMro ELSE 1 + mro(variants[cls].parent)

\* cls._weight as the attribute lookup finds it: the value set on the class
\* itself or else on the nearest class of its MRO that has one.
RECURSIVE weight_attribute(_, _)
weight_attribute(cache, cls) ==
    IF cache[cls] # None THEN cache[cls]
    ELSE IF cls = Message THEN None
    ELSE weight_attribute(cache, variants[cls].parent)

\* __perform_extra_weight_calculations: _extra_weight_calculations is empty
\* and inspect.getmembers keeps the members that are functions, which the
\* class method _adjust_weight_for_literal_event, read from the class, is not.
perform_extra_weight_calculations(cls) == 0

\* The weight get_weight computes when cls._weight is None; no field's type_
\* is an instance of WeightedModel, so every required field adds 1.
computed_weight(cls) ==
    mro(cls) + Cardinality(required(cls))
        + perform_extra_weight_calculations(cls)

\* WeightedModel.get_weight: the cache after the call and the value returned.
get_weight(cache, cls) ==
    IF weight_attribute(cache, cls) = None
    THEN [cache |-> [cache EXCEPT ![cls] = computed_weight(cls)],
          weight |-> computed_weight(cls)]
    ELSE [cache |-> cache, weight |-> weight_attribute(cache, cls)]

\* get_concrete_subclasses(cls): each direct subclass, in the order of
\* definition, followed by its own subclasses.
RECURSIVE get_concrete_subclasses(_)
RECURSIVE subclasses_from(_, _)
get_concrete_subclasses(cls) == subclasses_from(cls, 1)
subclasses_from(cls, v) ==
    IF v > MaxVariants THEN <<>>
    ELSE IF variants[v].parent = cls
    THEN <<v>> \o get_concrete_subclasses(v) \o subclasses_from(cls, v + 1)
    ELSE subclasses_from(cls, v + 1)

\* values_to_weigh[cls]: the class, then the classes of the ranker it is a
\* subclass of, in the ranker's order.
values_to_weigh(cls) ==
    <<cls>> \o SelectSeq(get_concrete_subclasses(Message),
                         LAMBDA p : p # cls /\ issubclass(cls, p))

\* The calls of get_weight update_message_ranker makes, in order: for each
\* class of the ranker, one for each class of its values_to_weigh.
RECURSIVE calls_of(_)
calls_of(classes) ==
    IF classes = <<>> THEN <<>>
    ELSE [i \in 1..Len(values_to_weigh(Head(classes))) |->
             [cls |-> Head(classes),
              parent |-> values_to_weigh(Head(classes))[i]]]
         \o calls_of(Tail(classes))

\* update_message_ranker: ranker[cls] becomes the sum of what get_weight
\* returns for the classes of values_to_weigh[cls]; the calls set _weight.
RECURSIVE update_message_ranker(_, _, _)
update_message_ranker(cache, rank, calls) ==
    IF calls = <<>> THEN [cache |-> cache, ranker |-> rank]
    ELSE LET got == get_weight(cache, Head(calls).parent)
         IN update_message_ranker(
                got.cache,
                [rank EXCEPT ![Head(calls).cls] = @ + got.weight],
                Tail(calls))

\* sorted(ranker.items(), key=rank, reverse=True): a stable sort, so classes
\* of equal rank keep the ranker's order.
RECURSIVE ranked(_, _)
ranked(rank, classes) ==
    IF classes = <<>> THEN <<>>
    ELSE LET top == CHOOSE i \in 1..Len(classes) :
                      /\ \A j \in 1..Len(classes) :
                            rank[classes[j]] <= rank[classes[i]]
                      /\ \A j \in 1..(i - 1) :
                            rank[classes[j]] < rank[classes[i]]
         IN <<classes[top]>>
            \o ranked(rank, SelectSeq(classes, LAMBDA c : c # classes[top]))

\* get_message_body_data_types: the ranked subclasses, then Message.
get_message_body_data_types(rank) ==
    ranked(rank, get_concrete_subclasses(Message)) \o <<Message>>

\* Whether a class validates the payload: its required fields are given;
\* what else the payload holds is kept as extra data.
validates(cls, payload) == required(cls) \subseteq payload

\* The Union field of the wrapper: the first type that validates the payload.
RECURSIVE first_valid(_, _)
first_valid(types, payload) ==
    IF types = <<>> THEN ValidationError
    ELSE IF validates(Head(types), payload) THEN Head(types)
    ELSE first_valid(Tail(types), payload)

\* cls.get_weight() called by the application.
weigh(cls) ==
    /\ cached_weight' = get_weight(cached_weight, cls).cache
    /\ UNCHANGED <<variants, ranker, parsed, response, published, mapping, answer,
                   entry, reparsed, coercion>>
    /\ MessagesOnly

\* messages.parse(payload)
parse(payload) ==
    LET updated == update_message_ranker(
                       cached_weight, [v \in Variants |-> 0],
                       calls_of(get_concrete_subclasses(Message)))
    IN /\ cached_weight' = updated.cache
       /\ ranker' = updated.ranker
       /\ parsed' = <<[payload |-> payload,
                       type |-> first_valid(
                           get_message_body_data_types(updated.ranker),
                           payload)]>>
       /\ UNCHANGED <<variants, response, published, mapping, answer, entry,
                    reparsed, coercion>>
       /\ MessagesOnly

\* Any classes derived from Message, none weighed yet.
InitParse ==
    /\ ListenersAtRest
    /\ variants \in [Variants -> [parent : Classes, own : SUBSET (1..MaxFields)]]
    /\ \A v \in Variants : variants[v].parent < v
    /\ cached_weight = [cls \in Classes |-> None]
    /\ ranker = [v \in Variants |-> 0]
    /\ parsed = <<>>
    /\ response = <<>>
    /\ published = <<>>
    /\ mapping = <<>>
    /\ answer = <<>>
    /\ entry = <<>>
    /\ reparsed = <<>>
    /\ coercion = <<>>

NextParse ==
    \/ \E cls \in Classes : weigh(cls)
    \/ \E payload \in SUBSET FieldNames : parse(payload)

SpecParse == InitParse /\ [][NextParse]_vars

\* -------------------------------------------------------------- responses
\* Message.create_response, Message.respond_to_message and the response step
\* of a listener.
\*
\* An event is the sequence of the pieces of its text, so that appending
\* "_response" and testing for it are what they are on the text.  An id is a
\* message id of the stream or None.  The application's name and instance are
\* texts, "" standing for None or the empty text.  The extra data of a message
\* is the set of its keys.
EventTexts == {<<"generic">>, <<"other">>, <<"generic", "_response">>}
ExtraKeys == {"id", "hoopla"}
Ids == {None} \cup Msgs
Messages ==
    [event : EventTexts, message_id : Ids, response_to : Ids,
     application_name : {"", "svc"}, application_instance : {"", "1"},
     data : SUBSET ExtraKeys]

\* Whether the text of an event ends in "_response".
is_response(event_text) ==
    Len(event_text) > 0 /\ event_text[Len(event_text)] = "_response"

\* Message.dict raises: `for key, value in self.get_data()` iterates over the
\* keys of the extra data and unpacks each into two names, which fails for a
\* key that is not two characters long.
dict_raises(message) == \E key \in message.data : key # "id"

\* Message.dict when it does not raise: the fields, and for each key of the
\* extra data its first character with its second as the value.
dict(message) ==
    [message EXCEPT !.data = IF "id" \in message.data THEN {"i"} ELSE {}]

\* Message.respond_to_message for the class Message: `data` is the event it
\* gives, <<>> when it gives none.
respond_to_message(request, data, application_name, application_instance) ==
    LET request_data == [dict(request) EXCEPT
                            !.event = IF data = <<>> THEN @ ELSE data]
    IN [request_data EXCEPT
           !.response_to = request.message_id,
           !.event = IF request_data.event = request.event
                        THEN @ \o <<"_response">> ELSE @,
           !.application_name = application_name,
           !.application_instance = application_instance]

\* Message.create_response
copy_as_response(message, application_name, application_instance) ==
    [dict(message) EXCEPT
        !.event = @ \o <<"_response">>,
        !.response_to = message.message_id,
        !.application_name = application_name,
        !.application_instance = application_instance]

\* Message.send raises: neither the message nor the call names the
\* application or its instance.
send_is_refused(message, application_name, application_instance) ==
    \/ message.application_name = "" /\ application_name = ""
    \/ message.application_instance = "" /\ application_instance = ""

\* A handler calls respond_to_message on the message it was given.
respond(request, data) ==
    /\ ~dict_raises(request)
    /\ response' = <<respond_to_message(request, data, "svc", "1")>>
    /\ UNCHANGED <<variants, cached_weight, ranker, parsed, published, mapping,
                   answer, entry, reparsed, coercion>>
    /\ MessagesOnly

\* A handler calls create_response on the message it was given.
create(request) ==
    /\ ~dict_raises(request)
    /\ response' = <<copy_as_response(request, "svc", "1")>>
    /\ UNCHANGED <<variants, cached_weight, ranker, parsed, published, mapping,
                   answer, entry, reparsed, coercion>>
    /\ MessagesOnly

\* EventStreamReader.process_response for a result that is a Message.
process_response(message_id, result) ==
    LET sent == IF result.response_to = None
                THEN [result EXCEPT !.response_to = message_id]
                ELSE result
    IN /\ ~send_is_refused(sent, "", "")
       /\ published' = <<sent>>
       /\ UNCHANGED <<variants, cached_weight, ranker, parsed, response,
                      mapping, answer, entry, reparsed, coercion>>
       /\ MessagesOnly

\* Handlers answer the messages they are given, with the message one of the
\* two functions builds or with a message of their own.
InitRespond ==
    /\ ListenersAtRest
    /\ MessagesStart

NextRespond ==
    \/ \E request \in Messages : \E data \in {<<>>} \cup EventTexts :
          respond(request, data)
    \/ \E request \in Messages : create(request)
    \/ \E message_id \in Msgs :
          \/ response # <<>> /\ process_response(message_id, response[1])
          \/ \E result \in Messages : process_response(message_id, result)

SpecRespond == InitRespond /\ [][NextRespond]_vars

\* ------------------------------------------------- a message as a mapping
\* Message.__init__ and the Mapping interface of a message.
\*
\* A value is known by its kind.  A message is the values of its declared
\* fields and its extra data, a list of key and value in the order the keys
\* were put in (a dict keeps that order).  Keyword arguments are such a list
\* too.
Values == {"None", "text", "number", "boolean", "structure"}

\* Message.__fields__, in the order of declaration.
fields ==
    <<"event", "message_id", "header", "application_name",
      "application_instance", "response_to", "workflow_id">>

\* The keys keyword arguments are drawn from: two declared fields and the
\* extra keys.
KwargKeys == {"event", "message_id"} \cup ExtraKeys

\* Keyword arguments: no key twice.
Kwargs ==
    {kwargs \in UNION {[1..n -> KwargKeys \X Values] :
                          n \in 0..Cardinality(KwargKeys)} :
        \A i \in DOMAIN kwargs : \A j \in DOMAIN kwargs :
            kwargs[i][1] = kwargs[j][1] => i = j}

\* kwargs.get(key)
kwarg(kwargs, key) ==
    IF \E i \in DOMAIN kwargs : kwargs[i][1] = key
    THEN kwargs[CHOOSE i \in DOMAIN kwargs : kwargs[i][1] = key][2]
    ELSE "None"

\* The validation of the declared fields: event is a required text and
\* message_id an optional one; a number or a boolean is taken as its text.
is_valid(kwargs) ==
    /\ kwarg(kwargs, "event") \in {"text", "number", "boolean"}
    /\ kwarg(kwargs, "message_id") \in {"None", "text", "number", "boolean"}

\* Message.__init__: the declared fields take their values from the keyword
\* arguments, the other keyword arguments become the extra data.
new_message(kwargs) ==
    [field |-> [name \in Range(fields) |->
                   IF kwarg(kwargs, name) = "None" THEN "None" ELSE "text"],
     extra_data |-> SelectSeq(kwargs, LAMBDA pair : pair[1] \notin Range(fields))]

\* Message.keys with the declared fields listed first.
fields_then_keys(message) ==
    fields \o [i \in 1..Len(message.extra_data) |-> message.extra_data[i][1]]

\* Message.keys: the keys of the extra data, then the declared fields.
keys(message) ==
    [i \in 1..Len(message.extra_data) |-> message.extra_data[i][1]] \o fields

\* Message.values
values(message) ==
    [i \in 1..Len(message.extra_data) |-> message.extra_data[i][2]]
    \o [i \in 1..Len(fields) |-> message.field[fields[i]]]

\* Message.items
items(message) ==
    message.extra_data
    \o [i \in 1..Len(fields) |-> <<fields[i], message.field[fields[i]]>>]

\* Message.__getitem__ for an integer key: list(self.values())[key].
getitem(message, key) == values(message)[key + 1]

\* Message(**kwargs)
construct(kwargs) ==
    /\ mapping = <<>>
    /\ is_valid(kwargs)
    /\ mapping' = <<new_message(kwargs)>>
    /\ UNCHANGED <<variants, cached_weight, ranker, parsed, response, published,
                   answer, entry, reparsed, coercion>>
    /\ MessagesOnly

\* keys(), values(), items() and message[i] for every index of the message.
read ==
    /\ mapping # <<>>
    /\ answer' = <<[keys |-> keys(mapping[1]),
                    values |-> values(mapping[1]),
                    items |-> items(mapping[1]),
                    getitem |-> [key \in 0..(Len(values(mapping[1])) - 1) |->
                                    getitem(mapping[1], key)]]>>
    /\ UNCHANGED <<variants, cached_weight, ranker, parsed, response, published,
                   mapping, entry, reparsed, coercion>>
    /\ MessagesOnly

InitMapping ==
    /\ ListenersAtRest
    /\ MessagesStart

NextMapping ==
    \/ \E kwargs \in Kwargs : construct(kwargs)
    \/ read

SpecMapping == InitMapping /\ [][NextMapping]_vars

\* --------------------------------------------------- a message round trip
\* Message.send puts a message on the stream; a listener reads the entry,
\* decodes it and parses it again.

\* What the client library takes as the value of an XADD field: bytes, text,
\* an integer or a float that is not a boolean; for anything else it raises
\* DataError.
is_encodable(value) == value \in {"text", "number"}

\* What the store keeps for a value the client library takes: the bytes of a
\* text, and for a number the digits of its text.
on_the_wire(value) == IF value = "number" THEN "digits" ELSE "bytes"

\* What decode_stream_message makes of the value of a field, by kind: bytes
\* are decoded to their text, and digits are read as the number.
decoded_kind(value) == IF value = "digits" THEN "number" ELSE "text"

\* Message.send with the application named in the call: the header is set
\* when the message has none; the fields of the entry are the extra data as
\* it is and every declared field that is not None, a text being sent as its
\* bytes.
with_header(message) ==
    [message EXCEPT !.field["header"] = IF @ = "None" THEN "text" ELSE @]

key_value_pairs(message) ==
    message.extra_data
    \o SelectSeq([i \in 1..Len(fields) |->
                     <<fields[i], message.field[fields[i]]>>],
                 LAMBDA pair : pair[2] # "None")

send ==
    /\ mapping # <<>>
    /\ entry = <<>>
    /\ mapping' = <<with_header(mapping[1])>>
    /\ LET pairs == key_value_pairs(with_header(mapping[1]))
       IN entry' = IF \A i \in DOMAIN pairs : is_encodable(pairs[i][2])
                   THEN <<[raised |-> "nothing",
                           fields |-> [i \in DOMAIN pairs |->
                                          <<pairs[i][1],
                                            on_the_wire(pairs[i][2])>>]]>>
                   ELSE <<[raised |-> "DataError", fields |-> <<>>]>>
    /\ UNCHANGED <<variants, cached_weight, ranker, parsed, response, published,
                   answer, reparsed, coercion>>
    /\ MessagesOnly

\* decode_stream_message of the entry read from the stream, and the message
\* made of the result.
parse_entry ==
    /\ entry # <<>>
    /\ entry[1].raised = "nothing"
    /\ reparsed = <<>>
    /\ LET decoded_message ==
               [i \in DOMAIN entry[1].fields |->
                   <<entry[1].fields[i][1], decoded_kind(entry[1].fields[i][2])>>]
       IN /\ is_valid(decoded_message)
          /\ reparsed' = <<new_message(decoded_message)>>
    /\ UNCHANGED <<variants, cached_weight, ranker, parsed, response, published,
                   mapping, answer, entry, coercion>>
    /\ MessagesOnly

InitRoundTrip ==
    /\ ListenersAtRest
    /\ MessagesStart

NextRoundTrip ==
    \/ \E kwargs \in Kwargs : construct(kwargs)
    \/ send
    \/ parse_entry

SpecRoundTrip == InitRoundTrip /\ [][NextRoundTrip]_vars

\* ------------------------------------------------------- decoding a payload
\* common.interpret_value, applied by decode_stream_message to every value of
\* an entry, and the encoding Message.send and the client library give a
\* value on its way to the stream.
\*
\* A value is a record of its Python type (`kind`) and its content (`of`):
\* the text of a str or of bytes, the repr of a number, the members of a list,
\* the pairs of key and value of a dict.  A str whose text is the JSON text of
\* a list or a dict has the kind "json" and that list or dict as its content
\* ("json bytes" for bytes).
IntegerTexts == {"12"}
FloatTexts == {"1.5", "0.00001"}
Texts ==
    IntegerTexts \cup FloatTexts
        \cup {"true", "NaN", "inf", "-inf", "null", "hello"}

str(text) == [kind |-> "str", of |-> <<text>>]
bytes(text) == [kind |-> "bytes", of |-> <<text>>]
list(members) == [kind |-> "list", of |-> members]
dictionary(pairs) == [kind |-> "dict", of |-> pairs]
json_text(structure) == [kind |-> "json", of |-> <<structure>>]

\* text.lower()
lower(text) == IF text = "NaN" THEN "nan" ELSE text

\* repr(float(text)): a float below 0.0001 or from 1e16 on is written with an
\* exponent.
float_repr(text) == IF text = "0.00001" THEN "1e-05" ELSE text

\* The values of a payload: texts and bytes, JSON texts of a list or a dict,
\* and lists and dicts of up to MaxItems texts or bytes.
Atoms == {str(text) : text \in Texts} \cup {bytes(text) : text \in Texts}
ListsOf(members) ==
    UNION {[1..n -> members] : n \in 0..MaxItems}
DictsOf(members) ==
    {<<>>} \cup {<<pair>> : pair \in {str("a"), bytes("a")} \X members}
JsonMembers == {str("12"), [kind |-> "int", of |-> <<"12">>]}
Structures(members) ==
    {list(l) : l \in ListsOf(members)}
        \cup {dictionary(d) : d \in DictsOf(members)}
PayloadValues ==
    Atoms \cup Structures(Atoms)
        \cup {json_text(structure) : structure \in Structures(JsonMembers)}
        \cup {[json_text(structure) EXCEPT !.kind = "json bytes"] :
                 structure \in Structures(JsonMembers)}

\* interpret_value for a str that is not the JSON text of a list or a dict:
\* the patterns and the sentinels, in the order they are tried.
interpret_text(text) ==
    IF text \in IntegerTexts THEN [kind |-> "int", of |-> <<text>>]
    ELSE IF text \in FloatTexts
    THEN [kind |-> "float", of |-> <<float_repr(text)>>]
    ELSE IF lower(text) \in {"true", "false"}
    THEN [kind |-> "bool", of |-> <<lower(text)>>]
    ELSE IF lower(text) = "nan" THEN [kind |-> "float", of |-> <<"nan">>]
    ELSE IF lower(text) \in {"inf", "infinity"}
    THEN [kind |-> "float", of |-> <<"inf">>]
    ELSE IF lower(text) \in {"-inf", "-infinity"}
    THEN [kind |-> "float", of |-> <<"-inf">>]
    ELSE IF text \in {"None", "Null", "null", "nil"}
    THEN [kind |-> "None", of |-> <<>>]
    ELSE str(text)

\* common.interpret_value; the answer of json_to_dict_or_list for a JSON text
\* is kept unless it is empty, and its members are left as they are.
RECURSIVE interpret_value(_)
interpret_value(v) ==
    CASE v.kind = "bytes" -> interpret_text(v.of[1])
      [] v.kind = "str" -> interpret_text(v.of[1])
      [] v.kind \in {"json", "json bytes"} ->
            IF v.of[1].of = <<>> THEN json_text(v.of[1]) ELSE v.of[1]
      [] v.kind = "dict" ->
            dictionary([i \in DOMAIN v.of |->
                           <<str(v.of[i][1].of[1]), interpret_value(v.of[i][2])>>])
      [] v.kind = "list" ->
            list([i \in DOMAIN v.of |-> interpret_value(v.of[i])])
      [] OTHER -> v

\* What Message.send and the client library cannot put on the stream: None
\* is left out and a boolean is refused.
is_sendable(v) == v.kind \notin {"None", "bool"}

\* The field Message.send and the client library make of a value: the JSON
\* text of a list or a dict, the bytes of a str, the repr of a number.
encode(v) ==
    CASE v.kind \in {"list", "dict"} -> json_text(v)
      [] v.kind \in {"int", "float"} -> bytes(v.of[1])
      [] v.kind = "str" -> bytes(v.of[1])
      [] v.kind = "json" -> [v EXCEPT !.kind = "json bytes"]
      [] OTHER -> v

\* decode_stream_message reaches a value of the payload or of the entry.
decode ==
    /\ Len(coercion) \in {1, 3}
    /\ coercion' = Append(coercion, interpret_value(coercion[Len(coercion)]))
    /\ UNCHANGED <<variants, cached_weight, ranker, parsed, response, published,
                   mapping, answer, entry, reparsed>>
    /\ MessagesOnly

\* The decoded value is sent to the stream.
send_value ==
    /\ Len(coercion) = 2
    /\ is_sendable(coercion[2])
    /\ coercion' = Append(coercion, encode(coercion[2]))
    /\ UNCHANGED <<variants, cached_weight, ranker, parsed, response, published,
                   mapping, answer, entry, reparsed>>
    /\ MessagesOnly

\* Any value of a payload.
InitDecode ==
    /\ ListenersAtRest
    /\ variants = <<>>
    /\ cached_weight = <<>>
    /\ ranker = <<>>
    /\ parsed = <<>>
    /\ response = <<>>
    /\ published = <<>>
    /\ mapping = <<>>
    /\ answer = <<>>
    /\ entry = <<>>
    /\ reparsed = <<>>
    /\ coercion \in {<<v>> : v \in PayloadValues}

NextDecode == decode \/ send_value

SpecDecode == InitDecode /\ [][NextDecode]_vars

\* ------------------------------------------------------ the order of a batch
\* The ids of the entries of one answer: <ms>-<seq>, with the milliseconds
\* counted from an instant on, so that their texts have the same width.
EntryIds == [ms : 0..MaxMs, seq : 0..MaxSeq]

\* The store's total order on ids: by milliseconds, then by sequence number.
precedes(a, b) == a.ms < b.ms \/ (a.ms = b.ms /\ a.seq < b.seq)

\* What XREADGROUP, XCLAIM of a listed range and XRANGE answer: entries in
\* the order of their ids.
RECURSIVE in_store_order(_)
in_store_order(ids) ==
    IF ids = {} THEN <<>>
    ELSE LET first == CHOOSE a \in ids : \A b \in ids \ {a} : precedes(a, b)
         IN <<first>> \o in_store_order(ids \ {first})

\* The decimal digits of a number as the character codes of its text.
RECURSIVE digits(_)
digits(n) ==
    IF n < 10 THEN <<48 + n>> ELSE digits(n \div 10) \o <<48 + (n % 10)>>

\* get_id_from_message: the id as the store sent it, b'<ms>-<seq>'.
get_id_from_message(message) ==
    digits(message.ms) \o <<45>> \o digits(message.seq)

\* The comparison of two byte strings that sorted() makes.
RECURSIVE bytes_less(_, _)
bytes_less(a, b) ==
    IF b = <<>> THEN FALSE
    ELSE IF a = <<>> THEN TRUE
    ELSE IF Head(a) # Head(b) THEN Head(a) < Head(b)
    ELSE bytes_less(Tail(a), Tail(b))

\* organize_messages: an OrderedDict filled from
\* sorted(messages, key=get_id_from_message).
RECURSIVE organized_messages(_)
organized_messages(messages) ==
    IF messages = <<>> THEN <<>>
    ELSE LET least == CHOOSE i \in 1..Len(messages) :
                         \A j \in 1..Len(messages) :
                            j = i \/ bytes_less(get_id_from_message(messages[i]),
                                                get_id_from_message(messages[j]))
             rest == [k \in 1..(Len(messages) - 1) |->
                        IF k < least THEN messages[k] ELSE messages[k + 1]]
         IN <<messages[least]>> \o organized_messages(rest)

OrderOnly ==
    UNCHANGED <<stream, group_exists, last_delivered, consumers, pel, idle,
                delivered, acked, lock, completion, progress, settings, pc,
                listed, batch, read_from, keep_polling, active, invocations,
                master_vars, lock_vars, api_vars, operations_vars,
                trim_vars, message_vars>>

\* The sets of at most `size` ids.
RECURSIVE SetsUpTo(_)
SetsUpTo(size) ==
    IF size = 0 THEN {{}}
    ELSE LET smaller == SetsUpTo(size - 1)
         IN smaller \cup {s \cup {a} : s \in smaller, a \in EntryIds}

Answers == SetsUpTo(MaxBatch) \ {{}}

\* The store answers a read or a claim with at most MaxBatch entries.
store_answers(ids) ==
    /\ raw_messages = <<>>
    /\ raw_messages' = in_store_order(ids)
    /\ UNCHANGED <<organized, dispatched>>
    /\ OrderOnly

\* read_from_stream, get_messages_from_inbox and get_idle_messages return
\* what organize_messages makes of the store's answer.
organize ==
    /\ raw_messages # <<>>
    /\ organized = <<>>
    /\ dispatched = <<>>
    /\ organized' = organized_messages(raw_messages)
    /\ UNCHANGED <<raw_messages, dispatched>>
    /\ OrderOnly

\* listen: the processes of the batch are made and awaited in the order of
\* the mapping's items.
await_process ==
    /\ organized # <<>>
    /\ dispatched' = Append(dispatched, Head(organized))
    /\ organized' = Tail(organized)
    /\ UNCHANGED raw_messages
    /\ OrderOnly

InitOrder ==
    /\ ListenersAtRest
    /\ MessagesStart

NextOrder ==
    \/ \E ids \in Answers : store_answers(ids)
    \/ organize
    \/ await_process

SpecOrder == InitOrder /\ [][NextOrder]_vars

\* ------------------------------------------------------ trimming the stream
\* settings.approximate_max_stream_length, the cap that Message.send passes
\* to XADD.
approximate_max_stream_length == MaxLength

TrimOnly ==
    UNCHANGED <<stream, group_exists, last_delivered, consumers, pel, idle,
                delivered, acked, lock, completion, progress, settings, pc,
                listed, batch, read_from, keep_polling, active, invocations,
                master_vars, lock_vars, api_vars, operations_vars,
                order_vars, message_vars>>

\* XLEN: the entries that are in the stream.
xlen == stream_last - stream_trimmed

\* XTRIM name MAXLEN ~ maxlen, and the MAXLEN ~ maxlen of XADD, on a stream
\* of the given length: the numbers of oldest entries the store may remove.
\* With the approximate flag the store removes whole nodes of entries, so
\* any number up to the excess over maxlen; the groups of the stream play no
\* part in it.
trimmable(length, maxlen) ==
    0..(IF length > maxlen THEN length - maxlen ELSE 0)

\* Message.send, by a producer or by process_response for a handler's
\* response: XADD with the cap on the stream's length.
message_send ==
    /\ stream_last < MaxAppended
    /\ stream_last' = stream_last + 1
    /\ \E k \in trimmable(xlen + 1, approximate_max_stream_length) :
          stream_trimmed' = stream_trimmed + k
    /\ UNCHANGED <<reader_delivered, reader_pending, archive, trim_message,
                   trim_pc, amount_to_write>>
    /\ TrimOnly

\* XREADGROUP with cursor ">": the entries of the stream after the group's
\* last-delivered id become pending.
group_read ==
    /\ reader_delivered < stream_last
    /\ reader_pending' = reader_pending \cup
          {m \in (stream_trimmed + 1)..stream_last : m > reader_delivered}
    /\ reader_delivered' = stream_last
    /\ UNCHANGED <<stream_last, stream_trimmed, archive, trim_message,
                   trim_pc, amount_to_write>>
    /\ TrimOnly

\* XACK of a pending entry.
group_ack(m) ==
    /\ m \in reader_pending
    /\ reader_pending' = reader_pending \ {m}
    /\ UNCHANGED <<stream_last, stream_trimmed, reader_delivered, archive,
                   trim_message, trim_pc, amount_to_write>>
    /\ TrimOnly

\* trim_streams up to its first command: message.count of 0 or None stands
\* for the default length, which no stream of the model exceeds; with
\* save_output the length of the stream is asked for first.
trim_begin(count, save_output) ==
    /\ trim_pc = "idle"
    /\ trim_message' = [count |-> count, save_output |-> save_output]
    /\ trim_pc' = IF save_output THEN "xlen" ELSE "xtrim"
    /\ UNCHANGED <<stream_last, stream_trimmed, reader_delivered,
                   reader_pending, archive, amount_to_write>>
    /\ TrimOnly

\* trim_streams: current_length = XLEN, amount_to_write = current_length -
\* count; nothing is written when that is not positive.
trim_xlen ==
    /\ trim_pc = "xlen"
    /\ amount_to_write' = xlen - trim_message.count
    /\ trim_pc' = IF xlen - trim_message.count > 0 THEN "xrange" ELSE "xtrim"
    /\ UNCHANGED <<stream_last, stream_trimmed, reader_delivered,
                   reader_pending, archive, trim_message>>
    /\ TrimOnly

\* trim_streams: XRANGE with count=amount_to_write answers the oldest
\* entries of the stream, which are written to the output file.
trim_xrange ==
    /\ trim_pc = "xrange"
    /\ archive' = archive \cup
          {m \in (stream_trimmed + 1)..stream_last :
              m <= stream_trimmed + amount_to_write}
    /\ trim_pc' = "xtrim"
    /\ UNCHANGED <<stream_last, stream_trimmed, reader_delivered,
                   reader_pending, trim_message, amount_to_write>>
    /\ TrimOnly

\* trim_streams: XTRIM with maxlen=count, approximate=True.
trim_xtrim ==
    /\ trim_pc = "xtrim"
    /\ \E k \in trimmable(xlen, trim_message.count) :
          stream_trimmed' = stream_trimmed + k
    /\ trim_pc' = "idle"
    /\ trim_message' = <<>>
    /\ UNCHANGED <<stream_last, reader_delivered, reader_pending, archive,
                   amount_to_write>>
    /\ TrimOnly

InitTrim ==
    /\ ListenersAtRest
    /\ MessagesStart

\* Producers and a group on a stream of at most MaxAppended entries, and
\* trim requests with a count of at most MaxLength.
NextTrim ==
    \/ message_send
    \/ group_read
    \/ \E m \in 1..MaxAppended : group_ack(m)
    \/ \E count \in 1..MaxLength : \E save_output \in BOOLEAN :
          trim_begin(count, save_output)
    \/ trim_xlen
    \/ trim_xrange
    \/ trim_xtrim

SpecTrim == InitTrim /\ [][NextTrim]_vars

\* ------------------------------------------------------------ properties
Owners(m) == {n \in Names : m \in pel[n]}

\* The handlers a dispatch of the message invokes, by listener kind.
Invoked(m) ==
    IF kind = "handler"
    THEN (IF stream[m] = ConfiguredEvent THEN {GroupHandler} ELSE {})
    ELSE Range(get_handlers(stream[m]))

\* The listener dispatches the head of its batch in this step.
Dispatches(c) == pc[c] = "dispatch" /\ batch'[c] = Tail(batch[c])

\* C1: when no handler ever raises, in a group of either listener kind every
\* message the group delivers is eventually acknowledged, and from some time
\* on nothing is pending in the group.
C1_AllAcknowledged ==
    (failing = {}) =>
        /\ \A m \in Msgs : (m \in delivered) ~> (m \in acked)
        /\ <>[](PendingAll = {})

Reclaimable == {m \in PendingAll : idle[m] >= max_idle_time} \ excluded

C6_AttemptCeiling ==
    \A m \in Msgs : \A h \in failing :
        invocations[m][h] <= MAX_HANDLER_ATTEMPTS

\* C7: in a Bus Listener with a raising handler, a handler of the same event
\* that does not raise is invoked at most once for one message.
C7_CompletedOnce ==
    (kind = "bus" /\ failing # {}) =>
        \A m \in Msgs : \A h \in Handlers \ failing : invocations[m][h] <= 1

\* C8: a message for which a raising handler has been invoked
\* MAX_HANDLER_ATTEMPTS times is eventually acknowledged.
C8_AckedAfterCeiling ==
    \A m \in Msgs : \A h \in Handlers :
        (h \in failing /\ invocations[m][h] >= MAX_HANDLER_ATTEMPTS)
            ~> (m \in acked)

\* C9: a Handler Group listener that dispatches a message invokes its handler
\* exactly when the message's event is the configured one; when the handler
\* returns, or was not invoked, the message is acknowledged and pending for
\* nobody; when the handler raises, the message is not acknowledged and is
\* pending for the inbox.
C9_HandlerDispatch ==
    [][\A c \in Consumers : (kind = "handler" /\ Dispatches(c)) =>
        LET m == Head(batch[c])
            matches == stream[m] = ConfiguredEvent
            before == invocations[m][GroupHandler]
        IN /\ invocations'[m][GroupHandler] =
                 IF matches THEN Min(before + 1, InvocationCap) ELSE before
           /\ (matches /\ GroupHandler \in failing) =>
                 /\ m \notin acked'
                 /\ m \in pel'[Inbox]
                 /\ \A n \in Names \ {Inbox} : m \notin pel'[n]
           /\ (~matches \/ GroupHandler \notin failing) =>
                 /\ m \in acked'
                 /\ \A n \in Names : m \notin pel'[n]]_vars

\* C9 witness: the handler was invoked for a message and raised, and the
\* message, not acknowledged, is pending for the inbox.
C9_Witness ==
    /\ kind = "handler"
    /\ \E m \in Msgs :
          /\ m \in delivered /\ stream[m] = ConfiguredEvent
          /\ invocations[m][GroupHandler] = 1
          /\ m \in pel[Inbox] /\ m \notin acked
          /\ \A c \in Consumers : pc[c] # "dispatch"

\* C10: when a Bus Listener dispatches a message to a handler that raises,
\* the handler's attempt count in the message's progress record grows by one
\* and the message, not acknowledged, is pending for the inbox afterwards.
C10_FailureRecorded ==
    [][\A c \in Consumers : (kind = "bus" /\ Dispatches(c)) =>
        LET m == Head(batch[c])
        IN \A h \in Invoked(m) \cap failing :
              /\ progress'[m][h] = progress[m][h] + 1
              /\ m \in pel'[Inbox]
              /\ m \notin acked']_vars

\* C11: a Bus Listener that dispatches a message whose event has no entry in
\* the handlers map invokes no handler and acknowledges nothing: no pending
\* list changes, and the message stays pending for whoever owned it.
C11_UnhandledEvent ==
    [][\A c \in Consumers :
        (/\ kind = "bus"
         /\ Dispatches(c)
         /\ stream[Head(batch[c])] # ConfiguredEvent) =>
              /\ invocations' = invocations
              /\ acked' = acked
              /\ pel' = pel
              /\ progress' = progress]_vars

\* C11 witness: a Bus Listener has dispatched a message of an event without
\* handlers; the message is still pending for the consumer that read it.
C11_Witness ==
    /\ kind = "bus"
    /\ \E c \in Consumers : \E m \in pel[c] :
          /\ stream[m] # ConfiguredEvent
          /\ m \notin acked
          /\ read_from[c] = "fresh" /\ pc[c] = "loop"
          /\ \A h \in Handlers : invocations[m][h] = 0

\* C12: when no handler raises, no handler is invoked more than once for one
\* message by the listeners of one group, whether the group is shared by the
\* instances of the application (unique=false) or is the instance-qualified
\* group of one instance (unique=true, a single listener).
C12_HandledOnce ==
    (failing = {}) =>
        \A m \in Msgs : \A h \in Handlers : invocations[m][h] <= 1

\* C13: a running listener whose stop_polling has been called eventually
\* leaves its loop, removes its consumer from the group and ends, whether or
\* not a message ever arrives.
C13_StopExits ==
    \A c \in Consumers :
        (pc[c] \notin {"new", "done"} /\ ~keep_polling[c]) ~> (pc[c] = "done")

\* The listener takes the next message of its batch in this step without
\* being closed in it.
MasterDispatches(i) ==
    /\ master_pc[i] = "dispatch"
    /\ message_processes'[i] = Tail(message_processes[i])
    /\ cancelling'[i] = cancelling[i]

\* C14: a listener whose task has been cancelled by close() invokes its
\* handler for no further message.
C14_CancelTerminal ==
    [][\A i \in Instances :
        (cancelling[i] /\ MasterDispatches(i)) =>
            master_stream[Head(message_processes[i])].event # master_handler
      ]_vars

\* C15: a listener leaves its loop only after it has been cancelled or told to
\* stop polling: no error raised while a message of a batch is processed or
\* its response is sent ends the loop.
C15_ErrorsStayLocal ==
    \A i \in Instances :
        (master_pc[i] \in {"remove", "done"}) => ~master_keep_polling[i]

\* The message a listener takes next is one its close_streams handler is
\* invoked for.
ClosesNext(i) ==
    /\ master_handler = "close_streams"
    /\ master_stream[Head(message_processes[i])].event = "close_streams"

\* C16: a listener that runs the close_streams handler stops polling in a
\* dispatch step exactly when the message carries the local application name
\* and the local instance identifier and the listener may make executive
\* decisions; a message for another identity leaves the flag as it is, and
\* nothing else that the listeners do on the master stream clears the flag.
C16_CloseStops ==
    [][\A i \in Instances :
        /\ (MasterDispatches(i) /\ ClosesNext(i)) =>
              LET message == master_stream[Head(message_processes[i])]
                  applies == /\ message.application_name = LocalName
                             /\ message.application_instance = i
              IN /\ (applies /\ master_executive) => ~master_keep_polling'[i]
                 /\ ~(applies /\ master_executive) =>
                       master_keep_polling'[i] = master_keep_polling[i]
        /\ (master_keep_polling[i] /\ ~master_keep_polling'[i]) =>
              (MasterDispatches(i) /\ ClosesNext(i))
      ]_vars

\* C16 witness: a close message for instance 1 has stopped the executive
\* listener of instance 1, which is gone, while the listener of instance 2
\* has acknowledged the same message and polls on.
C16_Witness ==
    /\ master_handler = "close_streams" /\ master_executive
    /\ \E m \in 1..Len(master_stream) :
          /\ master_stream[m] = Published("close_streams", LocalName, 1)
          /\ m \in master_acked[1] /\ m \in master_acked[2]
          /\ \A k \in 1..Len(master_stream) :
                master_stream[k].application_instance = 1
    /\ master_pc[1] = "done" /\ ~master_keep_polling[1]
    /\ master_pc[2] = "read" /\ master_keep_polling[2]

\* C17: when a listener without executive authority dispatches a close
\* message that carries the local identity, the listener keeps polling and
\* the message is acknowledged in its group and pending for nobody.
C17_RejectionAcknowledged ==
    [][\A i \in Instances :
        (MasterDispatches(i) /\ ClosesNext(i) /\ ~master_executive) =>
            LET m == Head(message_processes[i])
            IN message_applies_here(i, master_stream[m]) =>
                  /\ master_keep_polling'[i] = master_keep_polling[i]
                  /\ m \in master_acked'[i]
                  /\ m \notin master_inbox'[i] /\ m \notin master_pel'[i]
      ]_vars

\* The positions of the responses to a request that carry an instance's
\* identity.
Responses(r, i) ==
    {k \in 1..Len(master_stream) :
        master_stream[k] = [event |-> "get_instance_response",
                            application_name |-> LocalName,
                            application_instance |-> i,
                            response_to |-> r]}

MaxMasterLength == MaxPublished * (NumInstances + 1)

\* Every get_instance message on the stream has one response of each
\* instance.
AllAnswered ==
    \A r \in Requests :
        (master_stream[r].event = "get_instance") =>
            \A i \in Instances : Cardinality(Responses(r, i)) = 1

C23_NonEmptyBatch ==
    /\ [](\A c \in Consumers : (pc[c] = "dispatch") => batch[c] # <<>>)
    /\ [](delivered \subseteq 1..last_delivered)
    /\ [][\A c \in Consumers :
            (pc[c] = "fresh" /\ fresh_read(c)) =>
               IF last_delivered = Len(stream)
               THEN /\ pc'[c] = "inbox"
                    /\ batch'[c] = <<>>
               ELSE /\ pc'[c] = "dispatch"
                    /\ batch'[c] = SortedSeq((last_delivered + 1)..Len(stream))
                    /\ Range(batch'[c]) \cap delivered = {}
                    /\ delivered' = delivered \cup Range(batch'[c])]_vars

\* C23 witness: the group was created on a stream that had an entry; the
\* fresh read returned the entry appended afterwards and nothing else.
C23_Witness ==
    \E c \in Consumers :
        /\ pc[c] = "dispatch"
        /\ read_from[c] = "fresh"
        /\ batch[c] = <<2>>
        /\ delivered = {2}
        /\ PendingAll = {2}

\* C23 as stated: with nothing pending for the inbox and nothing idle, the
\* batch a fresh read returns consists exactly of the entries of the stream
\* that were not delivered to the group before.
C23_AllUndelivered ==
    [][\A c \in Consumers :
         (/\ pc[c] = "fresh"
          /\ pel[Inbox] = {}
          /\ XPENDING_IDLE(max_idle_time, 99) = {}
          /\ fresh_read(c)
          /\ pc'[c] = "dispatch") =>
             Range(batch'[c]) = {m \in 1..Len(stream) : m \notin delivered}]_vars

C25_DestroyedIffEmptyOrForced ==
    [][\A consumer \in Consumers \cup {NoConsumer} : \A force \in BOOLEAN :
         (group_exists /\ purge_consumers(consumer, force)) =>
            (~group_exists' <=> (PendingAll = {} \/ force))]_vars

\* C26: whenever a payload has been parsed, any two subclasses A and B of
\* Message where the required fields of A strictly include those of B have
\* ranker[A] > ranker[B], a payload of exactly the required fields of A is
\* parsed to neither B nor Message, and a payload with an event that gives the
\* required fields of no subclass is parsed to Message.
C26_SupersetOutweighs ==
    parsed # <<>> =>
        /\ \A A \in Variants : \A B \in Variants :
              (required(B) \subseteq required(A) /\ required(A) # required(B))
                 => /\ ranker[A] > ranker[B]
                    /\ parsed[1].payload = required(A)
                          => parsed[1].type \notin {B, Message}
        /\ (/\ event \in parsed[1].payload
            /\ \A v \in Variants : ~(required(v) \subseteq parsed[1].payload))
              => parsed[1].type = Message

\* C27: every message built by create_response or respond_to_message and
\* every message the response step publishes that has response_to set has an
\* event ending in "_response".
C27_ResponseEvent ==
    \A message \in Range(response) \cup Range(published) :
        message.response_to # None => is_response(message.event)

\* C28 as stated: in the order keys(), values() and items() list a message,
\* no extra key comes before a declared field.
C28_DeclaredFirst ==
    \A listing \in Range(answer) :
        \A i \in DOMAIN listing.keys : \A j \in DOMAIN listing.keys :
            (i < j /\ listing.keys[j] \in Range(fields))
               => listing.keys[i] \in Range(fields)

\* C28: keys() lists the keys of the extra data in the order they were given
\* and then the declared fields in the order of declaration; values() and
\* items() follow the same order, items() pairing keys() with values(), and
\* message[i] is the value at position i of that order.
C28_ExtraFirst ==
    \A listing \in Range(answer) :
        LET message == mapping[1]
            extras == Len(message.extra_data)
            n == extras + Len(fields)
        IN /\ Len(listing.keys) = n
           /\ Len(listing.values) = n
           /\ Len(listing.items) = n
           /\ DOMAIN listing.getitem = 0..(n - 1)
           /\ \A i \in 1..n :
                 /\ listing.keys[i] = IF i <= extras
                                      THEN message.extra_data[i][1]
                                      ELSE fields[i - extras]
                 /\ listing.values[i] = IF i <= extras
                                        THEN message.extra_data[i][2]
                                        ELSE message.field[fields[i - extras]]
                 /\ listing.items[i] = <<listing.keys[i], listing.values[i]>>
                 /\ listing.getitem[i - 1] = listing.values[i]

\* A message with two keys of extra data and a message id has been listed.
C28_Witness ==
    /\ answer # <<>>
    /\ Len(mapping[1].extra_data) = 2
    /\ mapping[1].field["message_id"] # "None"
    /\ answer[1].getitem[0] # answer[1].getitem[1]

\* C29: sending any message that was parsed from a payload puts an entry on
\* the stream, and the message parsed from that entry has as its keys the
\* declared fields and the extra keys of the payload, no more and no less.
C29_KeysPreserved ==
    /\ \A sent \in Range(entry) : sent.raised = "nothing"
    /\ \A message \in Range(reparsed) :
          Range(keys(message)) =
             Range(fields)
                \cup {mapping[1].extra_data[i][1] :
                         i \in DOMAIN mapping[1].extra_data}

\* C30: a value that was decoded, sent to the stream and decoded again is the
\* value the first decoding gave.
C30_Idempotent ==
    Len(coercion) = 4 => coercion[4] = coercion[2]

\* C31: every write sequence of several store commands on a group runs
\* entirely under the group's lock; in particular, in a purge, the deletion
\* of the consumer that follows the transfer of its pending entries and the
\* destruction of the group are made while the purge holds the lock.
C31_DeletedUnderLock ==
    [][/\ (purge_pc = "delete" /\ purge_pc' = "groups") => Purger \in lock
       /\ (group_exists /\ ~group_exists') => Purger \in lock]_vars

\* C38: the purge of a named consumer loses no message, even when that
\* consumer's listener is still reading: the deletion of the consumer that
\* ends the purge's transfer leaves every pending entry of the group pending
\* for some consumer.
C38_PurgeKeepsPending ==
    [][(purge_pc = "delete" /\ purge_pc' = "groups")
         => \A m \in PendingAll : m \in UNION {pel'[n] : n \in Names}]_vars

\* C32: a response is published only after the handler invocation that
\* returned it has completed, and all the responses of a batch have been
\* published before the listener evaluates its loop guard and reads again:
\* a response on the stream answers a message whose process is no longer
\* awaited by the responding listener, and a listener that is at its loop
\* guard or in its Read has no response left to send.
C32_ResponsesBeforeNextRead ==
    \A i \in Instances :
        /\ master_pc[i] \in {"loop", "read"} => response_processes[i] = <<>>
        /\ \A k \in 1..Len(master_stream) :
              (/\ master_stream[k].response_to # 0
               /\ master_stream[k].application_instance = i)
              => /\ master_stream[k].response_to < k
                 /\ master_stream[k].response_to
                       \notin Range(message_processes[i])

\* C32 witness: a listener is in its next Read after a batch whose response
\* it has published.
C32_Witness ==
    \E i \in Instances :
        /\ master_pc[i] = "read"
        /\ \E k \in 1..Len(master_stream) :
              /\ master_stream[k].response_to # 0
              /\ master_stream[k].application_instance = i

\* C33: within one consumer the messages of a batch are dispatched in the
\* order of the store on ids, <ms>-<seq> compared as numbers: of two messages
\* whose processes listen has awaited, the one awaited first has the lower
\* id.
C33_DispatchedInIdOrder ==
    \A i, j \in 1..Len(dispatched) :
        i < j => precedes(dispatched[i], dispatched[j])

\* C34: releasing a LuaSafeLock never removes a lock key that is owned by
\* another holder at that time, also when lock keys have been removed by the
\* unlock tool: a release that drops a lock object's token leaves a key that
\* holds another object's token in place.
C34_ReleaseKeepsOthersKey ==
    [][\A o \in LockObjects :
          (token[o] /\ ~token'[o] /\ lock_key \notin {0, o})
             => lock_key' = lock_key]_vars

\* C35: in a Handler Group a message whose handler fails at every attempt
\* does not starve the others: every entry appended to the stream after the
\* group was created is eventually returned by some Read.
C35_EveryEntryRead ==
    \A m \in Msgs :
        (kind = "handler" /\ group_exists /\ last_delivered < m
            /\ m <= Len(stream))
        ~> (m \in delivered)

\* C36: once a message has been acknowledged for the group, no later Read
\* returns it and no release, inbox drain, idle reclaim or transfer puts it
\* back into any consumer's pending entries, also when a slower earlier
\* owner finishes or fails after the acknowledgement.
C36_AckedIsFinal ==
    [][\A m \in acked :
          /\ \A n \in Names : m \notin pel'[n]
          /\ \A c \in Consumers :
                (pc[c] # "dispatch" /\ pc'[c] = "dispatch")
                   => m \notin Range(batch'[c])]_vars

\* C36 witness: a message has been acknowledged while it is still in the
\* batch of a slower listener, which is about to process it.
C36_Witness ==
    \E c \in Consumers :
        /\ pc[c] = "dispatch"
        /\ Head(batch[c]) \in acked

\* C37: Remove never discards unacknowledged messages, also when the
\* transfer to the inbox fails: the entries pending for the consumer when
\* it is deleted are still pending in the group afterwards.
C37_RemoveKeepsPending ==
    [][\A c \in Consumers :
          (pc[c] = "delete" /\ pc'[c] = "done")
             => \A m \in pel[c] : \E n \in Names : m \in pel'[n]]_vars

\* C39: a stop_polling made after launch created the listener's task and
\* before the task entered its polling loop is not lost: the flag it
\* cleared is still cleared when the task reaches the loop guard, so that
\* the listener leaves without reading a batch.
C39_EarlyStopKept ==
    [][\A c \in Consumers :
          (pc[c] = "new" /\ ~keep_polling[c])
             => (~keep_polling'[c] /\ pc'[c] \in {"new", "loop"})]_vars

\* C40: trimming never removes an entry that the group of the stream has
\* not been delivered or still holds pending, be it the cap of a publishing
\* XADD or the trim handler; and with save_output every entry the trim
\* handler removes is in the archive.
C40_TrimKeepsOwed ==
    [][\A m \in (stream_trimmed + 1)..stream_trimmed' :
          /\ m <= reader_delivered
          /\ m \notin reader_pending
          /\ (trim_pc = "xtrim" /\ trim_pc' = "idle"
                /\ trim_message.save_output) => m \in archive]_vars

====
